---------------------------- MODULE Spec2Model ----------------------------
(***************************************************************************)
(* A model of ts2gas (src/src/index.ts, lines 210-589): the options        *)
(* merger (deepAssign over defaults, caller overrides and statics), the    *)
(* before/after transformers handed to transpileModule, the export         *)
(* preamble injector and the assembly of the returned text.                *)
(***************************************************************************)
EXTENDS Integers, Sequences, FiniteSets, TLC

VARIABLES pc, source, options, request, addDummyModule, hooks, tree,
          scanned, outputText, output, thrown, compileCalls, compileRaised,
          mergeTarget, mergeSource, mergeResult, mergeCount,
          calls, probe, verdict, pending, heap

callVars == <<source, options, request, addDummyModule, hooks, tree,
              scanned, outputText, output, thrown, compileCalls, compileRaised>>

mergeVars == <<mergeTarget, mergeSource, mergeResult, mergeCount>>

(* Several invocations side by side (calls), a node handed to the node     *)
(* filters on their own (probe, verdict), the visitor calls of             *)
(* detectExportNodes that are still to be made (pending), and the objects  *)
(* the options merger reads and writes, each with its identity (heap).     *)
sideVars == <<calls, probe, verdict, pending, heap>>

vars == <<pc, callVars, mergeVars, sideVars>>

---------------------------------------------------------------------------
(* JavaScript values.  Every value is a record tagged with the value's     *)
(* kind; each kind has its own payload field, so that values of different  *)
(* kinds are never equal.                                                  *)

Undef == [t |-> "undefined"]

Null == [t |-> "null"]

Bool(b) == [t |-> "boolean", b |-> b]

Num(n) == [t |-> "number", n |-> n]

Str(s) == [t |-> "string", s |-> s]

Fn(f) == [t |-> "function", f |-> f]

Arr(a) == [t |-> "array", a |-> a]

Obj(o) == [t |-> "object", o |-> o]

EmptyMap == [k \in {} |-> Undef]

(* Reflect.get(target, key): the value of an absent key is undefined.      *)
Get(o, k) == IF k \in DOMAIN o THEN o[k] ELSE Undef

(* Array.isArray(v) *)
IsArray(v) == v.t = "array"

(* Object.prototype.toString.call(v) === '[object Object]' *)
isObject(v) == v.t = "object"

(* typeof v === 'object': plain objects, arrays and null. *)
TypeofObject(v) == v.t \in {"object", "array", "null"}

(* The value deepAssign leaves under a key after merging the source value  *)
(* `value` over the target value `targetValue` (undefined when the target  *)
(* lacks the key).                                                         *)
RECURSIVE deepAssignOne(_, _)

(* As AssignKey, with an array source replacing an array target. *)
AssignKeyReplaceArray(targetValue, value) ==
    IF IsArray(value) THEN value
    ELSE IF isObject(value)
    THEN Obj(deepAssignOne(IF isObject(targetValue) THEN targetValue.o ELSE EmptyMap,
                           value.o))
    ELSE IF value # Undef THEN value
    ELSE targetValue

AssignKey(targetValue, value) ==
    IF IsArray(value)
    THEN IF IsArray(targetValue) THEN Arr(targetValue.a \o value.a) ELSE value
    ELSE IF isObject(value)
    THEN Obj(deepAssignOne(IF isObject(targetValue) THEN targetValue.o ELSE EmptyMap,
                           value.o))
    ELSE IF value # Undef THEN value
    ELSE targetValue

(* One round of deepAssign's outer loop: the mapping `src` merged into     *)
(* the mapping `target`.  A key whose source value is undefined and that   *)
(* the target lacks is not created.                                        *)
deepAssignOne(target, src) ==
    LET written == {k \in DOMAIN src : src[k] # Undef}
    IN  [k \in DOMAIN target \cup written |->
            IF k \in DOMAIN src
            THEN AssignKey(Get(target, k), src[k])
            ELSE target[k]]

(* deepAssign(target, ...sources): the sources merged in order. *)
RECURSIVE deepAssign(_, _)
deepAssign(target, sources) ==
    IF sources = <<>> THEN target
    ELSE deepAssign(deepAssignOne(target, Head(sources)), Tail(sources))

---------------------------------------------------------------------------
(* The configuration layers of ts2gas. *)

ScriptTarget_ES3 == 0

ModuleKind_None == 0

BeforeNames == <<"noSubstitution", "ignoreExportFrom", "ignoreImport">>

AfterNames == <<"removeExportEsModule", "removeExportsDefault",
                "detectExportNodes", "addDummyModuleNodes">>

FnList(names) == Arr([i \in DOMAIN names |-> Fn(names[i])])

(* As defaults, with the target left out. *)
defaultsWithoutTarget ==
    [compilerOptions |->
        Obj([experimentalDecorators |-> Bool(TRUE),
             noImplicitUseStrict |-> Bool(TRUE)])]

defaults ==
    [compilerOptions |->
        Obj([experimentalDecorators |-> Bool(TRUE),
             noImplicitUseStrict |-> Bool(TRUE),
             target |-> Num(ScriptTarget_ES3)])]

(* As statics, with the module kind left out. *)
staticsWithoutModule ==
    [compilerOptions |-> Obj([emitDeclarationOnly |-> Bool(FALSE)]),
     transformers |->
        Obj([before |-> FnList(BeforeNames),
             after |-> FnList(AfterNames)])]

statics ==
    [compilerOptions |->
        Obj([emitDeclarationOnly |-> Bool(FALSE),
             module |-> Num(ModuleKind_None)]),
     transformers |->
        Obj([before |-> FnList(BeforeNames),
             after |-> FnList(AfterNames)])]

(* "Keep only override-able properties": the caller's value reduced to     *)
(* its compilerOptions and renamedDependencies.  An omitted argument takes *)
(* the parameter's default {}.  Destructuring null raises a TypeError,     *)
(* which SanitizeThrows tells.                                             *)
SanitizeThrows(opts) == opts = Null

(* As Sanitize, with every property of the caller's object kept. *)
SanitizeKeepAll(opts) ==
    LET arg == IF opts = Undef THEN Obj(EmptyMap) ELSE opts
    IN  IF arg.t = "object" THEN arg.o ELSE EmptyMap

Sanitize(opts) ==
    LET arg == IF opts = Undef THEN Obj(EmptyMap) ELSE opts
        props == IF arg.t = "object" THEN arg.o ELSE EmptyMap
    IN  IF TypeofObject(arg)
        THEN [compilerOptions |-> Get(props, "compilerOptions"),
              renamedDependencies |-> Get(props, "renamedDependencies")]
        ELSE EmptyMap

(* As MergeRequest, with the caller's overrides merged last. *)
MergeRequestCallerLast(opts) ==
    deepAssign(EmptyMap, <<defaults, statics, Sanitize(opts)>>)

(* The Compile Request: deepAssign({}, defaults, transpileOptions, statics) *)
MergeRequest(opts) == deepAssign(EmptyMap, <<defaults, Sanitize(opts), statics>>)

---------------------------------------------------------------------------
(* Syntax trees.  A node has a kind, a text (identifiers, literals and     *)
(* operator tokens), modifiers, the token kinds getChildren() yields, the  *)
(* children visitEachChild() visits, a position range, emit flags, the     *)
(* synthetic trailing comments attached to it, and (statements) the source *)
(* text getText() returns, as a sequence of characters.                    *)

Node(kind, text, children) ==
    [kind |-> kind, text |-> text, modifiers |-> {}, tokens |-> <<>>,
     children |-> children, pos |-> 0, end |-> 1, flags |-> {},
     comments |-> <<>>, src |-> <<>>]

(* A node made by the factory: its range is the sentinel (-1, -1). *)
Synthetic(kind, text, children) ==
    [Node(kind, text, children) EXCEPT !.pos = -1, !.end = -1]

Id(name) == Node("Identifier", name, <<>>)

createIdentifier(name) == Synthetic("Identifier", name, <<>>)

NumericLiteral(text) == Node("NumericLiteral", text, <<>>)

PropertyAccess(expression, name) ==
    Node("PropertyAccessExpression", "", <<expression, name>>)

Binary(left, operatorToken, right) ==
    Node("BinaryExpression", operatorToken, <<left, right>>)

Statement(kind, modifiers, tokens, children, src) ==
    [Node(kind, "", children) EXCEPT !.modifiers = modifiers,
                                     !.tokens = tokens, !.src = src]

(* createNotEmittedStatement(node): it has no children and takes the       *)
(* range of the node it stands for.                                        *)
createNotEmittedStatement(node) ==
    [Node("NotEmittedStatement", "", <<>>) EXCEPT !.pos = node.pos,
                                                  !.end = node.end]

(* As ReplaceNewlines, with a pattern that lacks the g flag: only the      *)
(* first line feed is replaced.                                            *)
RECURSIVE ReplaceFirstNewline(_)
ReplaceFirstNewline(text) ==
    IF text = <<>> THEN <<>>
    ELSE IF Head(text) = "\n" THEN <<"\\", "n">> \o Tail(text)
    ELSE <<Head(text)>> \o ReplaceFirstNewline(Tail(text))

(* String.prototype.replace(/\n/g, '\\n'): each line feed becomes the two  *)
(* characters backslash and n; every other character is kept.              *)
RECURSIVE ReplaceNewlines(_)
ReplaceNewlines(text) ==
    IF text = <<>> THEN <<>>
    ELSE (IF Head(text) = "\n" THEN <<"\\", "n">> ELSE <<Head(text)>>)
         \o ReplaceNewlines(Tail(text))

createCommentedStatement(node) ==
    [createNotEmittedStatement(node) EXCEPT
        !.comments = <<[kind |-> "SingleLineCommentTrivia",
                        text |-> ReplaceNewlines(node.src)]>>]

---------------------------------------------------------------------------
(* Node filters. *)

isIdentifier(node) == node.kind = "Identifier"

isExpressionStatement(node) == node.kind = "ExpressionStatement"

expression(node) == node.children[1]

left(node) == node.children[1]

right(node) == node.children[2]

name(node) == node.children[2]

(* As exportsDefaultNodeFilter, without the test of the right side. *)
exportsDefaultNodeFilterAnyRight(node) ==
    /\ isExpressionStatement(node)
    /\ expression(node).kind = "BinaryExpression"
    /\ left(expression(node)).kind = "PropertyAccessExpression"
    /\ isIdentifier(expression(left(expression(node))))
    /\ expression(left(expression(node))).text = "exports"
    /\ isIdentifier(name(left(expression(node))))
    /\ name(left(expression(node))).text = "default"
    /\ expression(node).text = "EqualsToken"

exportsDefaultNodeFilter(node) ==
    /\ isExpressionStatement(node)
    /\ expression(node).kind = "BinaryExpression"
    /\ left(expression(node)).kind = "PropertyAccessExpression"
    /\ isIdentifier(expression(left(expression(node))))
    /\ expression(left(expression(node))).text = "exports"
    /\ isIdentifier(name(left(expression(node))))
    /\ name(left(expression(node))).text = "default"
    /\ expression(node).text = "EqualsToken"
    /\ isIdentifier(right(expression(node)))

(* As exportEsModuleNodeFilter, without the test of the position range. *)
exportEsModuleNodeFilterAnyRange(node) ==
    /\ isExpressionStatement(node)
    /\ expression(node).kind = "BinaryExpression"
    /\ left(expression(node)).kind = "PropertyAccessExpression"
    /\ isIdentifier(expression(left(expression(node))))
    /\ expression(left(expression(node))).text = "exports"
    /\ name(left(expression(node))).text = "__esModule"

exportEsModuleNodeFilter(node) ==
    /\ isExpressionStatement(node)
    /\ node.pos = -1
    /\ node.end = -1
    /\ expression(node).kind = "BinaryExpression"
    /\ left(expression(node)).kind = "PropertyAccessExpression"
    /\ isIdentifier(expression(left(expression(node))))
    /\ expression(left(expression(node))).text = "exports"
    /\ name(left(expression(node))).text = "__esModule"

(* node.getChildren() scans the node's text for its tokens and raises for  *)
(* a node without a real position; the filter calls it for every export    *)
(* declaration.                                                            *)
exportFromNodeFilterRaises(node) ==
    /\ node.kind = "ExportDeclaration"
    /\ (node.pos < 0 \/ node.end < 0)

(* As exportFromNodeFilter, without the search for the `from` keyword. *)
exportDeclarationFilter(node) == node.kind = "ExportDeclaration"

exportFromNodeFilter(node) ==
    /\ node.kind = "ExportDeclaration"
    /\ \E i \in DOMAIN node.tokens : node.tokens[i] = "FromKeyword"

importNodeFilter(node) ==
    node.kind = "ImportEqualsDeclaration" \/ node.kind = "ImportDeclaration"

(* The earlier variant's exportEsModuleNodeFilter: every expression        *)
(* statement with the synthetic range.                                     *)
exportEsModuleNodeFilterEarlier(node) ==
    /\ node.kind = "ExpressionStatement"
    /\ node.pos = -1
    /\ node.end = -1

(* As identifierFilter, with every node taken for an identifier. *)
anyNodeFilter(node) == TRUE

identifierFilter(node) == isIdentifier(node)

(* The filter a transformer was built with, by the transformer's name. *)
NodeFilter(filter, node) ==
    CASE filter = "exportsDefaultNodeFilter" -> exportsDefaultNodeFilter(node)
      [] filter = "exportEsModuleNodeFilter" -> exportEsModuleNodeFilter(node)
      [] filter = "exportFromNodeFilter" -> exportFromNodeFilter(node)
      [] filter = "importNodeFilter" -> importNodeFilter(node)
      [] filter = "identifierFilter" -> identifierFilter(node)
      [] filter = "exportEsModuleNodeFilterEarlier" ->
            exportEsModuleNodeFilterEarlier(node)
      [] OTHER -> FALSE

---------------------------------------------------------------------------
(* `before:` transformers.  A source file is its statement list, the       *)
(* external-module indicator the parser set, and the emit helpers          *)
(* requested for it.                                                       *)

(* As ignoreVisitor, without the visit of a non-matched node's children. *)
ignoreVisitorTopOnly(filter, node) ==
    IF NodeFilter(filter, node) THEN createCommentedStatement(node) ELSE node

RECURSIVE ignoreVisitor(_, _)
ignoreVisitor(filter, node) ==
    IF NodeFilter(filter, node)
    THEN createCommentedStatement(node)
    ELSE [node EXCEPT !.children =
             [i \in DOMAIN node.children |-> ignoreVisitor(filter, node.children[i])]]

(* ignoreNodeBeforeBuilder(nodeFilter): visitNode(sourceFile, visitor). *)
ignoreNodeBeforeBuilder(filter, sf) ==
    [sf EXCEPT !.statements =
        [i \in DOMAIN sf.statements |-> ignoreVisitor(filter, sf.statements[i])]]

(* As noSubstitutionVisitor, without the look at the parent's kind. *)
RECURSIVE noSubstitutionVisitorEnumToo(_, _, _)
noSubstitutionVisitorEnumToo(filter, node, parentKind) ==
    LET flagged == IF NodeFilter(filter, node)
                   THEN [node EXCEPT !.flags = {"NoSubstitution"}]
                   ELSE node
    IN  [flagged EXCEPT !.children =
            [i \in DOMAIN node.children |->
                noSubstitutionVisitorEnumToo(filter, node.children[i], node.kind)]]

RECURSIVE noSubstitutionVisitor(_, _, _)
noSubstitutionVisitor(filter, node, parentKind) ==
    LET flagged == IF NodeFilter(filter, node) /\ parentKind # "EnumDeclaration"
                   THEN [node EXCEPT !.flags = {"NoSubstitution"}]
                   ELSE node
    IN  [flagged EXCEPT !.children =
            [i \in DOMAIN node.children |->
                noSubstitutionVisitor(filter, node.children[i], node.kind)]]

noSubstitutionBeforeBuilder(filter, sf) ==
    [sf EXCEPT !.statements =
        [i \in DOMAIN sf.statements |->
            noSubstitutionVisitor(filter, sf.statements[i], "SourceFile")]]

(* As ApplyBefore, with noSubstitution left out of the before passes. *)
ApplyBeforeWithoutNoSubstitution(transformer, sf) ==
    CASE transformer = "ignoreImport" ->
            ignoreNodeBeforeBuilder("importNodeFilter", sf)
      [] transformer = "ignoreExportFrom" ->
            ignoreNodeBeforeBuilder("exportFromNodeFilter", sf)
      [] OTHER -> sf

(* One `before` transformer of the request, by name; a function the model  *)
(* does not know leaves the source file as it is.                          *)
ApplyBefore(transformer, sf) ==
    CASE transformer = "noSubstitution" ->
            noSubstitutionBeforeBuilder("identifierFilter", sf)
      [] transformer = "ignoreImport" ->
            ignoreNodeBeforeBuilder("importNodeFilter", sf)
      [] transformer = "ignoreExportFrom" ->
            ignoreNodeBeforeBuilder("exportFromNodeFilter", sf)
      [] OTHER -> sf

RECURSIVE RunBeforeList(_, _)
RunBeforeList(fns, sf) ==
    IF fns = <<>> THEN sf
    ELSE RunBeforeList(Tail(fns), ApplyBefore(Head(fns).f, sf))

---------------------------------------------------------------------------
(* `after:` transformers. *)

(* ignoreNodeAfterBuilder(kind, nodeFilter): the filter each after-pass    *)
(* adds to the onSubstituteNode chain when its factory is called; the      *)
(* transformer itself returns the source file it is given.                 *)
HookFilter(transformer) ==
    CASE transformer = "removeExportEsModule" -> <<"exportEsModuleNodeFilter">>
      [] transformer = "removeExportsDefault" -> <<"exportsDefaultNodeFilter">>
      [] OTHER -> <<>>

RECURSIVE RegisterHooks(_)
RegisterHooks(fns) ==
    IF fns = <<>> THEN <<>>
    ELSE HookFilter(Head(fns).f) \o RegisterHooks(Tail(fns))

(* As visitor, without the early return: the children are visited         *)
(* whatever the flag says.                                                 *)
visitorKeepsLooking(node, flag) ==
    [flag |-> flag \/ (isIdentifier(node) /\ node.text = "exports"),
     visit |-> node.children]

(* One call of detectExportNodes' visitor: the flag after the call, and    *)
(* the children visitEachChild hands to the visitor next.                  *)
visitor(node, flag) ==
    IF flag
    THEN [flag |-> TRUE, visit |-> <<>>]
    ELSE [flag |-> isIdentifier(node) /\ node.text = "exports",
          visit |-> node.children]

(* As detectVisitor, without the descent into the node's children. *)
detectVisitorShallow(node, flag) ==
    flag \/ (isIdentifier(node) /\ node.text = "exports")

(* detectExportNodes' visitor: the value of addDummyModule after the       *)
(* visitor has run on `node`, given its value `flag` before.               *)
RECURSIVE detectVisitor(_, _)
RECURSIVE detectEachChild(_, _)
detectVisitor(node, flag) ==
    IF flag THEN flag
    ELSE detectEachChild(node.children,
                         flag \/ (isIdentifier(node) /\ node.text = "exports"))

detectEachChild(children, flag) ==
    IF children = <<>> THEN flag
    ELSE detectEachChild(Tail(children), detectVisitor(Head(children), flag))

detectExportNodes(sf, flag) == detectEachChild(sf.statements, flag)

ExportsOrEmpty ==
    Synthetic("BinaryExpression", "BarBarToken",
              <<createIdentifier("exports"),
                Synthetic("ObjectLiteralExpression", "", <<>>)>>)

ModuleOrExports ==
    Synthetic("BinaryExpression", "BarBarToken",
              <<createIdentifier("module"),
                Synthetic("ObjectLiteralExpression", "",
                          <<Synthetic("PropertyAssignment", "",
                                      <<createIdentifier("exports"),
                                        createIdentifier("exports")>>)>>)>>)

createVariableStatement(id, initializer) ==
    Synthetic("VariableStatement", "",
        <<Synthetic("VariableDeclarationList", "",
            <<Synthetic("VariableDeclaration", "",
                        <<createIdentifier(id), initializer>>)>>)>>)

ExportsGuard == createVariableStatement("exports", ExportsOrEmpty)

ModuleGuard == createVariableStatement("module", ModuleOrExports)

(* As addDummyModuleNodes, with the guards put after the statements. *)
addDummyModuleNodesGuardsLast(sf, flag) ==
    IF flag
    THEN [sf EXCEPT !.statements = sf.statements \o <<ExportsGuard, ModuleGuard>>]
    ELSE sf

(* As addDummyModuleNodes, with the guards added whatever the flag says. *)
addDummyModuleNodesAlways(sf, flag) ==
    [sf EXCEPT !.statements = <<ExportsGuard, ModuleGuard>> \o sf.statements]

addDummyModuleNodes(sf, flag) ==
    IF flag
    THEN [sf EXCEPT !.statements = <<ExportsGuard, ModuleGuard>> \o sf.statements]
    ELSE sf

(* One `after` transformer applied to the pair (source file, flag). *)
(* As ApplyAfter, with detectExportNodes returning no statement once it    *)
(* has found an identifier `exports`.                                      *)
ApplyAfterDetectPrunes(transformer, st) ==
    CASE transformer = "detectExportNodes" ->
            [st EXCEPT !.flag = detectExportNodes(st.sf, st.flag),
                       !.sf.statements =
                           IF detectExportNodes(st.sf, st.flag) THEN <<>> ELSE @]
      [] transformer = "addDummyModuleNodes" ->
            [st EXCEPT !.sf = addDummyModuleNodes(st.sf, st.flag)]
      [] OTHER -> st

ApplyAfter(transformer, st) ==
    CASE transformer = "detectExportNodes" ->
            [st EXCEPT !.flag = detectExportNodes(st.sf, st.flag)]
      [] transformer = "addDummyModuleNodes" ->
            [st EXCEPT !.sf = addDummyModuleNodes(st.sf, st.flag)]
      [] OTHER -> st

RECURSIVE RunAfterList(_, _)
RunAfterList(fns, st) ==
    IF fns = <<>> THEN st
    ELSE RunAfterList(Tail(fns), ApplyAfter(Head(fns).f, st))

---------------------------------------------------------------------------
(* The compile collaborator (transpileModule), as far as the pipeline      *)
(* depends on it: the parser's external-module indicator, the module and   *)
(* down-level transforms that run between the before and after passes,     *)
(* and the printer with its substitution hook.                             *)

ScriptTarget_ES2015 == 2

IsModuleSyntax(stmt) ==
    \/ stmt.kind \in {"ImportDeclaration", "ExportDeclaration", "ExportAssignment"}
    \/ "export" \in stmt.modifiers

(* The names the import declarations of the source bind. *)
ImportBindings(stmts) ==
    UNION {{stmts[i].children[1].children[j].text :
               j \in DOMAIN stmts[i].children[1].children} :
           i \in {n \in DOMAIN stmts : stmts[n].kind = "ImportDeclaration"}}

ParseSource(stmts) ==
    [statements |-> [i \in DOMAIN stmts |-> [stmts[i] EXCEPT !.pos = i - 1, !.end = i]],
     externalModuleIndicator |-> \E i \in DOMAIN stmts : IsModuleSyntax(stmts[i]),
     helpers |-> <<>>,
     imports |-> ImportBindings(stmts)]

declaration(stmt) == stmt.children[1].children[1]

HasSpread(node) ==
    /\ node.kind = "ArrayLiteralExpression"
    /\ \E i \in DOMAIN node.children : node.children[i].kind = "SpreadElement"

NeedsSpreadHelper(stmt, target) ==
    /\ target < ScriptTarget_ES2015
    /\ stmt.kind = "VariableStatement"
    /\ HasSpread(declaration(stmt).children[2])

(* [...c] below ES2015: __spreadArray([], c, true) *)
DownLevel(node, target) ==
    IF HasSpread(node) /\ target < ScriptTarget_ES2015
    THEN Synthetic("CallExpression", "",
                   <<createIdentifier("__spreadArray"),
                     Synthetic("ArrayLiteralExpression", "", <<>>),
                     node.children[1].children[1]>>)
    ELSE node

ExportsDot(id) == PropertyAccess(createIdentifier("exports"), id)

ExpressionStatementAt(stmt, expr) ==
    [Node("ExpressionStatement", "", <<expr>>) EXCEPT !.pos = stmt.pos,
                                                      !.end = stmt.end]

(* A copy of a declaration's name made by the compiler: it keeps the emit  *)
(* flags of the name and says what it names (ExportName, LocalName).       *)
NameCopy(id, flag) ==
    [id EXCEPT !.pos = -1, !.end = -1, !.flags = @ \cup {flag}]

(* export enum E { ... }:                                                  *)
(*   var E; (function (E) { ... })(E = exports.E || (exports.E = {}));     *)
(* where each `exports.E` is the export name E until the printer           *)
(* substitutes it.                                                         *)
ExportedEnum(stmt) ==
    LET id == stmt.children[1]
        exportName == NameCopy(id, "ExportName")
        localName == NameCopy(id, "LocalName")
    IN  <<[Synthetic("VariableStatement", "",
              <<Synthetic("VariableDeclarationList", "",
                  <<Synthetic("VariableDeclaration", "", <<localName>>)>>)>>)
              EXCEPT !.pos = stmt.pos, !.end = stmt.end],
          Synthetic("ExpressionStatement", "",
              <<Synthetic("CallExpression", "",
                  <<Synthetic("FunctionExpression", "",
                              <<localName>> \o Tail(stmt.children)),
                    Binary(localName, "EqualsToken",
                        Binary(exportName, "BarBarToken",
                            Binary(exportName, "EqualsToken",
                                Synthetic("ObjectLiteralExpression", "", <<>>))))>>)>>)>>

(* The statements one statement of an external module compiles to. *)
ModuleStatement(stmt, target) ==
    CASE stmt.kind = "VariableStatement" /\ "export" \in stmt.modifiers ->
            <<ExpressionStatementAt(stmt,
                Binary(ExportsDot(declaration(stmt).children[1]), "EqualsToken",
                       DownLevel(declaration(stmt).children[2], target)))>>
      [] stmt.kind = "ExportAssignment" ->
            <<ExpressionStatementAt(stmt,
                Binary(ExportsDot(createIdentifier("default")), "EqualsToken",
                       stmt.children[1]))>>
      [] stmt.kind = "ExportDeclaration" /\ exportFromNodeFilter(stmt) ->
            <<ExpressionStatementAt(stmt,
                Synthetic("CallExpression", "",
                          <<createIdentifier("__exportStar"),
                            createIdentifier("require"),
                            createIdentifier("exports")>>))>>
      [] stmt.kind = "ExportDeclaration" -> <<>>
      [] stmt.kind = "EnumDeclaration" -> ExportedEnum(stmt)
      [] stmt.kind = "ImportDeclaration" ->
            <<[createVariableStatement("module_1", createIdentifier("require"))
                  EXCEPT !.pos = stmt.pos, !.end = stmt.end]>>
      [] OTHER -> <<stmt>>

(* The statements one statement of a script (or the body of a plain        *)
(* statement of a module) compiles to.                                     *)
ScriptStatement(stmt, target) ==
    CASE stmt.kind = "VariableStatement" /\ "export" \notin stmt.modifiers ->
            <<[stmt EXCEPT !.children[1].children[1].children[2] =
                               DownLevel(@, target)]>>
      [] stmt.kind = "ImportEqualsDeclaration" ->
            <<[createVariableStatement(stmt.children[1].text, stmt.children[2])
                  EXCEPT !.pos = stmt.pos, !.end = stmt.end]>>
      [] OTHER -> <<stmt>>

TransformStatement(stmt, isModule, target) ==
    IF isModule /\ (IsModuleSyntax(stmt))
    THEN ModuleStatement(stmt, target)
    ELSE ScriptStatement(stmt, target)

RECURSIVE TransformStatements(_, _, _)
TransformStatements(stmts, isModule, target) ==
    IF stmts = <<>> THEN <<>>
    ELSE TransformStatement(Head(stmts), isModule, target)
         \o TransformStatements(Tail(stmts), isModule, target)

(* The names an external module exports with `export const` or             *)
(* `export { a }`, in source order.                                        *)
RECURSIVE ExportedNames(_)
ExportedNames(stmts) ==
    IF stmts = <<>> THEN <<>>
    ELSE LET stmt == Head(stmts)
         IN  (CASE stmt.kind = "VariableStatement" /\ "export" \in stmt.modifiers ->
                      <<declaration(stmt).children[1].text>>
                [] stmt.kind = "EnumDeclaration" /\ "export" \in stmt.modifiers ->
                      <<stmt.children[1].text>>
                [] stmt.kind = "ExportDeclaration" /\ ~exportFromNodeFilter(stmt) ->
                      <<stmt.children[1].children[1].text>>
                [] OTHER -> <<>>)
             \o ExportedNames(Tail(stmts))

(* exports.a = exports.b = void 0 *)
RECURSIVE VoidChain(_)
VoidChain(names) ==
    IF names = <<>> THEN Synthetic("VoidExpression", "", <<>>)
    ELSE Synthetic("BinaryExpression", "EqualsToken",
                   <<Synthetic("PropertyAccessExpression", "",
                               <<createIdentifier("exports"),
                                 createIdentifier(Head(names))>>),
                     VoidChain(Tail(names))>>)

HoistedExports(stmts) ==
    IF ExportedNames(stmts) = <<>> THEN <<>>
    ELSE <<Synthetic("ExpressionStatement", "", <<VoidChain(ExportedNames(stmts))>>)>>

(* exports.__esModule = true for ES3; from ES5 on the marker is a call of  *)
(* Object.defineProperty(exports, "__esModule", { value: true }).          *)
EsModuleMarker(target) ==
    IF target = ScriptTarget_ES3
    THEN Synthetic("ExpressionStatement", "",
            <<Synthetic("BinaryExpression", "EqualsToken",
                <<Synthetic("PropertyAccessExpression", "",
                            <<createIdentifier("exports"),
                              createIdentifier("__esModule")>>),
                  Synthetic("TrueKeyword", "", <<>>)>>)>>)
    ELSE Synthetic("ExpressionStatement", "",
            <<Synthetic("CallExpression", "",
                <<Synthetic("PropertyAccessExpression", "",
                            <<createIdentifier("Object"),
                              createIdentifier("defineProperty")>>),
                  createIdentifier("exports"),
                  Synthetic("StringLiteral", "__esModule", <<>>)>>)>>)

RECURSIVE ContainsThis(_)
ContainsThis(node) ==
    \/ node.kind = "ThisKeyword"
    \/ \E i \in DOMAIN node.children : ContainsThis(node.children[i])

(* Below ES2015 an arrow function becomes a function expression; one that  *)
(* uses `this` is marked as taking the `this` of the code around it.       *)
RECURSIVE LowerArrows(_, _)
LowerArrows(node, target) ==
    LET lowered == [node EXCEPT !.children =
                       [i \in DOMAIN node.children |->
                           LowerArrows(node.children[i], target)]]
    IN  IF node.kind = "ArrowFunction" /\ target < ScriptTarget_ES2015
        THEN [lowered EXCEPT !.kind = "FunctionExpression",
                             !.text = IF ContainsThis(node) THEN "lexicalThis" ELSE ""]
        ELSE lowered

RECURSIVE CapturesThis(_)
CapturesThis(node) ==
    \/ node.kind = "FunctionExpression" /\ node.text = "lexicalThis"
    \/ \E i \in DOMAIN node.children : CapturesThis(node.children[i])

(* var _this = this; *)
CaptureThis(stmts) ==
    IF \E i \in DOMAIN stmts : CapturesThis(stmts[i])
    THEN <<createVariableStatement("_this", Synthetic("ThisKeyword", "", <<>>))>>
    ELSE <<>>

(* The tree the after-pass transformers receive. *)
TransformTree(sf, target) ==
    LET isModule == sf.externalModuleIndicator
        prefix == IF isModule
                  THEN <<EsModuleMarker(target)>> \o HoistedExports(sf.statements)
                  ELSE <<>>
        compiled == TransformStatements(sf.statements, isModule, target)
        body == [i \in DOMAIN compiled |-> LowerArrows(compiled[i], target)]
    IN  [sf EXCEPT
            !.statements = prefix \o CaptureThis(body) \o body,
            !.helpers = IF \E i \in DOMAIN sf.statements :
                               NeedsSpreadHelper(sf.statements[i], target)
                        THEN <<"__spreadArray">> ELSE <<>>]

(* As onSubstituteNode, with each pass overwriting the hook installed      *)
(* before it: only the filter registered last is applied.                  *)
onSubstituteNodeOverwritten(filters, node) ==
    IF filters = <<>> THEN node
    ELSE IF NodeFilter(filters[Len(filters)], node)
         THEN createNotEmittedStatement(node)
         ELSE node

(* onSubstituteNode, as the after passes have chained it: each registered  *)
(* filter is applied to the result of the hooks registered before it.      *)
RECURSIVE onSubstituteNode(_, _)
onSubstituteNode(filters, node) ==
    IF filters = <<>> THEN node
    ELSE LET previous == onSubstituteNode(SubSeq(filters, 1, Len(filters) - 1), node)
         IN  IF NodeFilter(filters[Len(filters)], previous)
             THEN createNotEmittedStatement(previous)
             ELSE previous

(* The compiler's own substitutions: an export name becomes a property of  *)
(* `exports`, a name an import declaration binds becomes a property of the *)
(* imported module, and a `this` taken from the code around a former arrow *)
(* function becomes `_this`.                                               *)
BuiltinSubstitute(node, ctx) ==
    CASE node.kind = "Identifier" /\ "ExportName" \in node.flags ->
            ExportsDot([node EXCEPT !.flags = {"NoSubstitution"}])
      [] node.kind = "Identifier" /\ "ExportName" \notin node.flags
                                  /\ node.text \in ctx.imports ->
            PropertyAccess(createIdentifier("module_1"),
                           [node EXCEPT !.flags = {"NoSubstitution"}])
      [] node.kind = "ThisKeyword" /\ ctx.captured -> createIdentifier("_this")
      [] OTHER -> node

(* The printer substitutes every node that is not flagged NoSubstitution:  *)
(* the compiler's substitution first, then (expression statements, once    *)
(* an after pass has enabled them) the chained hooks; then it prints the   *)
(* children of what it got.                                                *)
RECURSIVE Substitute(_, _, _)
Substitute(filters, node, ctx) ==
    LET enabled == "NoSubstitution" \notin node.flags
        builtin == IF enabled THEN BuiltinSubstitute(node, ctx) ELSE node
        subst == IF enabled /\ filters # <<>> /\ node.kind = "ExpressionStatement"
                 THEN onSubstituteNode(filters, builtin)
                 ELSE builtin
        inner == [ctx EXCEPT !.captured =
                     @ \/ (subst.kind = "FunctionExpression"
                            /\ subst.text = "lexicalThis")]
    IN  [subst EXCEPT !.children =
            [i \in DOMAIN subst.children |->
                Substitute(filters, subst.children[i], inner)]]

(* A line of the output text; `at` is the position of the statement it is  *)
(* printed for (-1 for text no source statement stands behind).            *)
CommentLine(comment, at) ==
    [k |-> "comment", at |-> at, kind |-> comment.kind, text |-> comment.text]

CodeLine(node) == [k |-> "code", at |-> node.pos, node |-> node]

HelperLine(helper) == [k |-> "helper", at |-> -1, helper |-> helper]

(* The lines one statement prints: a not-emitted statement prints only its *)
(* synthetic trailing comments.                                            *)
PrintStatement(filters, stmt, ctx) ==
    LET node == Substitute(filters, stmt, ctx)
    IN  IF node.kind = "NotEmittedStatement"
        THEN [i \in DOMAIN node.comments |-> CommentLine(node.comments[i], node.pos)]
        ELSE <<CodeLine(node)>>

RECURSIVE PrintStatements(_, _, _)
PrintStatements(filters, stmts, ctx) ==
    IF stmts = <<>> THEN <<>>
    ELSE PrintStatement(filters, Head(stmts), ctx)
         \o PrintStatements(filters, Tail(stmts), ctx)

(* result.outputText: the emit helpers, then the statement list. *)
EmitText(filters, sf) ==
    [i \in DOMAIN sf.helpers |-> HelperLine(sf.helpers[i])]
    \o PrintStatements(filters, sf.statements,
                       [imports |-> sf.imports, captured |-> FALSE])

---------------------------------------------------------------------------
(* The inputs: sources (as the parser reads them) and caller options.      *)

MaxStmts == 2

MaxSepLen == 1

Whitespace == {" ", "\n", "\r"}

(* The white space between two tokens of a statement. *)
Separators == UNION {[1..n -> Whitespace] : n \in 1..MaxSepLen}

VarStmt(modifiers, id, initializer, src) ==
    Statement("VariableStatement", modifiers, <<>>,
        <<Node("VariableDeclarationList", "",
            <<Node("VariableDeclaration", "", <<Id(id), initializer>>)>>)>>,
        src)

(* const a = 1; *)
ConstStmt == VarStmt({}, "a", NumericLiteral("1"), <<"const a = 1;">>)

(* export const pi = 3.141592; *)
ExportConst ==
    VarStmt({"export"}, "pi", NumericLiteral("3.141592"),
            <<"export const pi = 3.141592;">>)

(* let scale = [...cde]; *)
SpreadStmt ==
    VarStmt({}, "scale",
            Node("ArrayLiteralExpression", "",
                 <<Node("SpreadElement", "", <<Id("cde")>>)>>),
            <<"let scale = [...cde];">>)

(* import ContentAlignment = GoogleAppsScript.Slides; *)
ImportEquals(sep) ==
    Statement("ImportEqualsDeclaration", {},
        <<"ImportKeyword", "Identifier", "EqualsToken", "QualifiedName">>,
        <<Id("ContentAlignment"),
          Node("QualifiedName", "", <<Id("GoogleAppsScript"), Id("Slides")>>)>>,
        <<"import ContentAlignment">> \o sep \o <<"= GoogleAppsScript.Slides;">>)

(* import { Module } from 'TypeScriptModule1'; over three lines *)
ImportFrom ==
    Statement("ImportDeclaration", {},
        <<"ImportKeyword", "ImportClause", "FromKeyword", "StringLiteral">>,
        <<Node("ImportClause", "", <<Id("Module")>>),
          Node("StringLiteral", "TypeScriptModule1", <<>>)>>,
        <<"import {", "\n", "Module", "\n", "} from 'TypeScriptModule1';">>)

(* export { foo } from "file"; over two lines *)
ExportFrom ==
    Statement("ExportDeclaration", {},
        <<"ExportKeyword", "NamedExports", "FromKeyword", "StringLiteral">>,
        <<Node("NamedExports", "", <<Id("foo")>>),
          Node("StringLiteral", "file", <<>>)>>,
        <<"export { foo }", "\n", "from \"file\";">>)

(* export { a }; *)
ExportNamed ==
    Statement("ExportDeclaration", {}, <<"ExportKeyword", "NamedExports">>,
        <<Node("NamedExports", "", <<Id("a")>>)>>, <<"export { a };">>)

(* export default Client; *)
ExportDefaultId ==
    Statement("ExportAssignment", {}, <<"ExportKeyword", "DefaultKeyword", "Identifier">>,
        <<Id("Client")>>, <<"export default Client;">>)

(* export default 3.141592; *)
ExportDefaultLiteral ==
    Statement("ExportAssignment", {},
        <<"ExportKeyword", "DefaultKeyword", "NumericLiteral">>,
        <<NumericLiteral("3.141592")>>, <<"export default 3.141592;">>)

(* exports.ICONS.email; *)
ReadExports ==
    Statement("ExpressionStatement", {}, <<>>,
        <<PropertyAccess(PropertyAccess(Id("exports"), Id("ICONS")), Id("email"))>>,
        <<"exports.ICONS.email;">>)

(* module.exports = 3.14; *)
ModuleExports ==
    Statement("ExpressionStatement", {}, <<>>,
        <<Binary(PropertyAccess(Id("module"), Id("exports")), "EqualsToken",
                 NumericLiteral("3.14"))>>,
        <<"module.exports = 3.14;">>)

(* const module = new Module(); *)
UseImported ==
    VarStmt({}, "module", Node("NewExpression", "", <<Id("Module")>>),
            <<"const module = new Module();">>)

(* enum Languages { eng_us = 'eng_us' }, exported or not *)
EnumStmt(modifiers) ==
    Statement("EnumDeclaration", modifiers, <<>>,
        <<Id("Languages"),
          Node("EnumMember", "", <<Id("eng_us"), Node("StringLiteral", "eng_us", <<>>)>>)>>,
        <<"enum Languages { eng_us = 'eng_us' }">>)

(* namespace Pop { ... } *)
NamespaceStmt(body) ==
    Statement("ModuleDeclaration", {}, <<>>,
        <<Id("Pop"), Node("ModuleBlock", "", body)>>, <<"namespace Pop { }">>)

This == Node("ThisKeyword", "", <<>>)

(* f(this.x, () => this.y); *)
ThisStmt ==
    Statement("ExpressionStatement", {}, <<>>,
        <<Node("CallExpression", "",
            <<Id("f"), PropertyAccess(This, Id("x")),
              Node("ArrowFunction", "", <<PropertyAccess(This, Id("y"))>>)>>)>>,
        <<"f(this.x, () => this.y);">>)

(* exports.__esModule = true; *)
UserEsModule ==
    Statement("ExpressionStatement", {}, <<>>,
        <<Binary(PropertyAccess(Id("exports"), Id("__esModule")), "EqualsToken",
                 Node("TrueKeyword", "", <<>>))>>,
        <<"exports.__esModule = true;">>)

(* exports.default = foo; *)
UserExportsDefault ==
    Statement("ExpressionStatement", {}, <<>>,
        <<Binary(PropertyAccess(Id("exports"), Id("default")), "EqualsToken",
                 Id("foo"))>>,
        <<"exports.default = foo;">>)

(* Statements with nodes below the statement level. *)
NodeStatements ==
    {ImportFrom, UseImported, EnumStmt({}), EnumStmt({"export"}), ThisStmt,
     UserEsModule, UserExportsDefault,
     NamespaceStmt(<<ConstStmt, ImportEquals(<<" ">>), ConstStmt>>),
     NamespaceStmt(<<NamespaceStmt(<<ImportEquals(<<"\n">>)>>), UseImported>>)}

NodeSources == UNION {[1..n -> NodeStatements] : n \in 0..MaxStmts}

SourceStatements ==
    {ConstStmt, ExportConst, SpreadStmt, ImportFrom, ExportFrom, ExportNamed,
     ExportDefaultId, ExportDefaultLiteral, ModuleExports, ReadExports}
    \cup {ImportEquals(sep) : sep \in Separators}

Sources == UNION {[1..n -> SourceStatements] : n \in 0..MaxStmts}

MaxCallerKeys == 2

CompilerOptionKeys ==
    {"target", "module", "emitDeclarationOnly", "noLib", "isolatedModules",
     "noResolve"}

CallerValues ==
    {Undef, Bool(TRUE), Bool(FALSE), Num(ScriptTarget_ES2015),
     Arr(<<Str("es5")>>), Obj([strict |-> Bool(TRUE)])}

CallerCompilerOptions ==
    UNION {[keys -> CallerValues] :
              keys \in {ks \in SUBSET CompilerOptionKeys : Cardinality(ks) <= MaxCallerKeys}}

CallerTransformers ==
    Obj([before |-> FnList(<<"callerTransformer">>),
         after |-> FnList(<<"callerTransformer">>)])

(* Top-level keys a caller may add beside compilerOptions. *)
CallerExtras ==
    {EmptyMap,
     [transformers |-> CallerTransformers, fileName |-> Str("Code.ts")],
     [renamedDependencies |-> Obj([SomeName |-> Str("SomeOtherName")]),
      reportDiagnostics |-> Bool(TRUE)]}

WithCompilerOptions(extra, co) ==
    [k \in DOMAIN extra \cup {"compilerOptions"} |->
        IF k = "compilerOptions" THEN co ELSE extra[k]]

CallerOptions ==
    {Undef, Null, Str("options"), Num(1), Arr(<<>>)}
    \cup {Obj(extra) : extra \in CallerExtras}
    \cup {Obj(WithCompilerOptions(extra, Obj(co))) :
             extra \in CallerExtras, co \in CallerCompilerOptions}
    \cup {Obj(WithCompilerOptions(extra, co)) :
             extra \in CallerExtras, co \in {Undef, Str("strict")}}

(* The few option values the tree specification runs every source with. *)
FewOptions ==
    {Undef, Null, Obj([compilerOptions |-> Obj([target |-> Num(ScriptTarget_ES2015)])])}

(* The few sources the options specification runs every option value with. *)
FewSources == {<<ExportConst>>, <<SpreadStmt, ImportFrom>>}

---------------------------------------------------------------------------
(* One invocation of ts2gas. *)

NoTree == ParseSource(<<>>)

(* No node is under the filters, and no verdict has been given. *)
NoNode == Node("None", "", <<>>)

NoVerdict == [given |-> FALSE]

(* No object has been made. *)
NoHeap == <<>>

PackageName == "ts2gas"

PackageVersion == "4.2.0"

(* // Compiled using <name> <version> (TypeScript <version>) *)
Banner ==
    [k |-> "banner", at |-> -1, name |-> PackageName, version |-> PackageVersion,
     typescript |-> "version"]

(* As AssembleOutput, with the banner put after the output text. *)
AssembleBannerLast(text) == text \o <<Banner>>

(* The returned text: the banner line, then result.outputText. *)
AssembleOutput(text) == <<Banner>> \o text

Target(req) ==
    LET co == Get(req, "compilerOptions")
        t == IF isObject(co) THEN Get(co.o, "target") ELSE Undef
    IN  IF t.t = "number" THEN t.n ELSE ScriptTarget_ES3

Transformers(req, phase) == req["transformers"].o[phase].a

InitWith(sources, optionValues) ==
    /\ pc = "start"
    /\ source \in sources
    /\ options \in optionValues
    /\ request = EmptyMap
    /\ addDummyModule = FALSE
    /\ hooks = <<>>
    /\ tree = NoTree
    /\ scanned = NoTree
    /\ outputText = <<>>
    /\ output = <<>>
    /\ thrown = "none"
    /\ compileCalls = 0
    /\ compileRaised = FALSE
    /\ mergeTarget = EmptyMap
    /\ mergeSource = EmptyMap
    /\ mergeResult = EmptyMap
    /\ mergeCount = 0
    /\ calls = <<>>
    /\ probe = NoNode
    /\ verdict = NoVerdict
    /\ pending = <<>>
    /\ heap = NoHeap

Init == InitWith(Sources, FewOptions)

InitOptions == InitWith(FewSources, CallerOptions)

InitNodes == InitWith(NodeSources, FewOptions)

(* Destructuring a null options value raises before anything is built. *)
SanitizeRaises ==
    /\ pc = "start"
    /\ SanitizeThrows(options)
    /\ pc' = "error"
    /\ thrown' = "TypeError"
    /\ UNCHANGED <<source, options, request, addDummyModule, hooks, tree,
                   scanned, outputText, output>>
    /\ UNCHANGED <<compileCalls, compileRaised, mergeVars, sideVars>>

(* Keep only the override-able properties, then merge the three layers. *)
BuildRequest ==
    /\ pc = "start"
    /\ ~SanitizeThrows(options)
    /\ request' = MergeRequest(options)
    /\ pc' = "merged"
    /\ UNCHANGED <<source, options, addDummyModule, hooks, tree, scanned,
                   outputText, output, thrown>>
    /\ UNCHANGED <<compileCalls, compileRaised, mergeVars, sideVars>>

(* As Propagate, with the error caught and the banner alone returned. *)
SwallowError(error) == [pc |-> "done", thrown |-> "none", output |-> <<Banner>>]

(* No handler stands around the transpileModule call: an error it raises   *)
(* leaves ts2gas at once, and nothing is returned.                         *)
Propagate(error) == [pc |-> "error", thrown |-> error, output |-> <<>>]

(* transpileModule raises, at its entry or at any later point of its work. *)
CompileRaises ==
    /\ pc \in {"merged", "before", "builtin", "after"}
    /\ compileCalls' = IF pc = "merged" THEN compileCalls + 1 ELSE compileCalls
    /\ compileRaised' = TRUE
    /\ pc' = Propagate("CompileError").pc
    /\ thrown' = Propagate("CompileError").thrown
    /\ output' = Propagate("CompileError").output
    /\ UNCHANGED <<source, options, request, addDummyModule, hooks, tree,
                   scanned, outputText>>
    /\ UNCHANGED <<mergeVars, sideVars>>

(* transpileModule: the transformer factories are called, then the before  *)
(* transformers run on the parsed source file.                             *)
RunBefore ==
    /\ pc = "merged"
    /\ hooks' = RegisterHooks(Transformers(request, "after"))
    /\ tree' = RunBeforeList(Transformers(request, "before"), ParseSource(source))
    /\ pc' = "before"
    /\ compileCalls' = compileCalls + 1
    /\ UNCHANGED <<source, options, request, addDummyModule, scanned,
                   outputText, output, thrown>>
    /\ UNCHANGED <<compileRaised, mergeVars, sideVars>>

(* transpileModule: the compiler's own transforms. *)
RunBuiltin ==
    /\ pc = "before"
    /\ tree' = TransformTree(tree, Target(request))
    /\ pc' = "builtin"
    /\ UNCHANGED <<source, options, request, addDummyModule, hooks, scanned,
                   outputText, output, thrown>>
    /\ UNCHANGED <<compileCalls, compileRaised, mergeVars, sideVars>>

(* transpileModule: the after transformers run, in the request's order. *)
RunAfter ==
    /\ pc = "builtin"
    /\ LET st == RunAfterList(Transformers(request, "after"),
                              [sf |-> tree, flag |-> addDummyModule])
       IN  /\ tree' = st.sf
           /\ addDummyModule' = st.flag
    /\ scanned' = tree
    /\ pc' = "after"
    /\ UNCHANGED <<source, options, request, hooks, outputText, output, thrown>>
    /\ UNCHANGED <<compileCalls, compileRaised, mergeVars, sideVars>>

(* transpileModule: the printer writes result.outputText. *)
Emit ==
    /\ pc = "after"
    /\ outputText' = EmitText(hooks, tree)
    /\ pc' = "emitted"
    /\ UNCHANGED <<source, options, request, addDummyModule, hooks, tree,
                   scanned, output, thrown>>
    /\ UNCHANGED <<compileCalls, compileRaised, mergeVars, sideVars>>

(* The banner line is put before the output text, which is returned. *)
Assemble ==
    /\ pc = "emitted"
    /\ output' = AssembleOutput(outputText)
    /\ pc' = "done"
    /\ UNCHANGED <<source, options, request, addDummyModule, hooks, tree,
                   scanned, outputText, thrown>>
    /\ UNCHANGED <<compileCalls, compileRaised, mergeVars, sideVars>>

Next ==
    \/ SanitizeRaises
    \/ BuildRequest
    \/ CompileRaises
    \/ RunBefore
    \/ RunBuiltin
    \/ RunAfter
    \/ Emit
    \/ Assemble

Spec == Init /\ [][Next]_vars

SpecOptions == InitOptions /\ [][Next]_vars

SpecNodes == InitNodes /\ [][Next]_vars

---------------------------------------------------------------------------
(* Several invocations of ts2gas, started one after the other and advanced *)
(* in any order.  Each invocation has the locals of its own activation of  *)
(* ts2gas: the flag addDummyModule among them.                             *)

MaxCalls == 2

CallSources == {<<ExportConst>>, <<ConstStmt>>, <<ImportEquals(<<" ">>), ConstStmt>>}

CallOptions ==
    {Undef, Obj([compilerOptions |-> Obj([target |-> Num(ScriptTarget_ES2015)])])}

(* `let addDummyModule = false` at the entry of ts2gas. *)
NewCall(src, opts) ==
    [pc |-> "start", source |-> src, options |-> opts, request |-> EmptyMap,
     addDummyModule |-> FALSE, hooks |-> <<>>, tree |-> NoTree,
     outputText |-> <<>>, output |-> <<>>]

(* As FlagOf, with one flag declared outside ts2gas and shared by all      *)
(* invocations.                                                            *)
FlagShared(cs, i) == \E j \in DOMAIN cs : cs[j].addDummyModule

(* The flag the closures of the i-th invocation read. *)
FlagOf(cs, i) == cs[i].addDummyModule

(* The next step of one invocation, `flag` being the flag it reads. *)
Advance(c, flag) ==
    CASE c.pc = "start" ->
            [c EXCEPT !.request = MergeRequest(c.options), !.pc = "merged"]
      [] c.pc = "merged" ->
            [c EXCEPT !.hooks = RegisterHooks(Transformers(c.request, "after")),
                      !.tree = RunBeforeList(Transformers(c.request, "before"),
                                             ParseSource(c.source)),
                      !.pc = "before"]
      [] c.pc = "before" ->
            [c EXCEPT !.tree = TransformTree(c.tree, Target(c.request)),
                      !.pc = "builtin"]
      [] c.pc = "builtin" ->
            LET st == RunAfterList(Transformers(c.request, "after"),
                                   [sf |-> c.tree, flag |-> flag])
            IN  [c EXCEPT !.tree = st.sf, !.addDummyModule = st.flag, !.pc = "after"]
      [] c.pc = "after" ->
            [c EXCEPT !.outputText = EmitText(c.hooks, c.tree), !.pc = "emitted"]
      [] c.pc = "emitted" ->
            [c EXCEPT !.output = AssembleOutput(c.outputText), !.pc = "done"]

InitCalls ==
    /\ pc = "calls"
    /\ source = <<>>
    /\ options = Undef
    /\ request = EmptyMap
    /\ addDummyModule = FALSE
    /\ hooks = <<>>
    /\ tree = NoTree
    /\ scanned = NoTree
    /\ outputText = <<>>
    /\ output = <<>>
    /\ thrown = "none"
    /\ compileCalls = 0
    /\ compileRaised = FALSE
    /\ mergeTarget = EmptyMap
    /\ mergeSource = EmptyMap
    /\ mergeResult = EmptyMap
    /\ mergeCount = 0
    /\ calls = <<>>
    /\ probe = NoNode
    /\ verdict = NoVerdict
    /\ pending = <<>>
    /\ heap = NoHeap

(* A caller invokes ts2gas. *)
Invoke ==
    /\ pc = "calls"
    /\ Len(calls) < MaxCalls
    /\ \E src \in CallSources, opts \in CallOptions :
          calls' = Append(calls, NewCall(src, opts))
    /\ UNCHANGED <<pc, callVars, mergeVars, probe, verdict, pending, heap>>

(* One invocation takes its next step. *)
StepCall ==
    /\ pc = "calls"
    /\ \E i \in DOMAIN calls :
          /\ calls[i].pc # "done"
          /\ calls' = [calls EXCEPT ![i] = Advance(calls[i], FlagOf(calls, i))]
    /\ UNCHANGED <<pc, callVars, mergeVars, probe, verdict, pending, heap>>

NextCalls == Invoke \/ StepCall

SpecCalls == InitCalls /\ [][NextCalls]_vars

(* ts2gas(source, transpileOptions) as a function of its two arguments     *)
(* (the options not null).                                                 *)
Run(src, opts) ==
    LET req == MergeRequest(opts)
        before == RunBeforeList(Transformers(req, "before"), ParseSource(src))
        builtin == TransformTree(before, Target(req))
        after == RunAfterList(Transformers(req, "after"),
                              [sf |-> builtin, flag |-> FALSE])
    IN  AssembleOutput(EmitText(RegisterHooks(Transformers(req, "after")), after.sf))

---------------------------------------------------------------------------
(* The node filters on their own: one node is put under every filter, and  *)
(* a node that can stand as the only statement of a source is compiled.    *)

(* export * from 'file'; *)
ExportStar ==
    Statement("ExportDeclaration", {},
        <<"ExportKeyword", "AsteriskToken", "FromKeyword", "StringLiteral">>,
        <<Node("StringLiteral", "file", <<>>)>>,
        <<"export * from 'file';">>)

(* export { from }; *)
ExportNamedFrom ==
    Statement("ExportDeclaration", {}, <<"ExportKeyword", "NamedExports">>,
        <<Node("NamedExports", "", <<Id("from")>>)>>, <<"export { from };">>)

(* export class A { } *)
ExportClass ==
    Statement("ClassDeclaration", {"export"},
        <<"SyntaxList", "ClassKeyword", "Identifier", "OpenBraceToken",
          "SyntaxList", "CloseBraceToken">>,
        <<Id("A")>>, <<"export class A { }">>)

(* export function f() { } *)
ExportFunction ==
    Statement("FunctionDeclaration", {"export"},
        <<"SyntaxList", "FunctionKeyword", "Identifier", "OpenParenToken",
          "SyntaxList", "CloseParenToken", "Block">>,
        <<Id("f"), Node("Block", "", <<>>)>>, <<"export function f() { }">>)

(* <object>.<property> <operator> <right>; at the given range *)
Assignment(range, object, property, operator, rhs) ==
    [Statement("ExpressionStatement", {}, <<>>,
        <<Binary(PropertyAccess(Id(object), Id(property)), operator, rhs)>>,
        <<"<object>.<property> <operator> <right>;">>)
     EXCEPT !.pos = range[1], !.end = range[2]]

(* Assignments at the range the factory gives, at the range of the first   *)
(* statement of a source, and at a range only the start of which is the    *)
(* sentinel.                                                               *)
AssignmentProbes ==
    {Assignment(range, object, property, operator, rhs) :
        range \in {<<-1, -1>>, <<0, 1>>, <<-1, 1>>},
        object \in {"exports", "module"},
        property \in {"default", "__esModule"},
        operator \in {"EqualsToken", "PlusEqualsToken"},
        rhs \in {Id("foo"), NumericLiteral("3.141592"),
                 Node("TrueKeyword", "", <<>>),
                 Node("CallExpression", "", <<Id("foo")>>)}}

(* Declarations and statements as the parser reads them; an export         *)
(* declaration made by the factory; and expression statements with only    *)
(* a part of the shape the after filters ask for.                          *)
DeclarationProbes ==
    {ExportStar, ExportFrom, ExportNamed, ExportNamedFrom, ExportDefaultId,
     ExportDefaultLiteral, ExportConst, ExportClass, ExportFunction,
     ImportFrom, ImportEquals(<<" ">>), ConstStmt, ReadExports, ThisStmt,
     [ExportFrom EXCEPT !.pos = -1, !.end = -1],
     EsModuleMarker(ScriptTarget_ES2015),
     Statement("ExpressionStatement", {}, <<>>,
               <<Binary(Id("exports"), "EqualsToken", Id("foo"))>>,
               <<"exports = foo;">>)}

ProbeNodes == AssignmentProbes \cup DeclarationProbes

(* The probes the compile collaborator's model covers as the one statement *)
(* of a source.                                                            *)
SourceProbes ==
    {node \in AssignmentProbes \cup DeclarationProbes :
        node.pos = 0 /\ node.end = 1}
    \ {ExportClass, ExportFunction}

InitFilters ==
    /\ pc = "filters"
    /\ source = <<>>
    /\ options = Undef
    /\ request = EmptyMap
    /\ addDummyModule = FALSE
    /\ hooks = <<>>
    /\ tree = NoTree
    /\ scanned = NoTree
    /\ outputText = <<>>
    /\ output = <<>>
    /\ thrown = "none"
    /\ compileCalls = 0
    /\ compileRaised = FALSE
    /\ mergeTarget = EmptyMap
    /\ mergeSource = EmptyMap
    /\ mergeResult = EmptyMap
    /\ mergeCount = 0
    /\ calls = <<>>
    /\ probe \in ProbeNodes
    /\ verdict = NoVerdict
    /\ pending = <<>>
    /\ heap = NoHeap

(* Every filter's answer for the node (no answer is left when a filter     *)
(* raises), and what the passes built on the                               *)
(* filters make of it: the before visitor of ignoreExportFrom, and the     *)
(* substitution hook of each of the two after passes.                      *)
ApplyFilters ==
    /\ pc = "filters"
    /\ verdict = NoVerdict
    /\ verdict' =
          IF exportFromNodeFilterRaises(probe)
          THEN [given |-> FALSE, raised |-> "exportFromNodeFilter"]
          ELSE
          [given |-> TRUE,
           compiled |-> FALSE,
           import |-> importNodeFilter(probe),
           identifier |-> identifierFilter(probe),
           exportsDefault |-> exportsDefaultNodeFilter(probe),
           exportEsModule |-> exportEsModuleNodeFilter(probe),
           exportFrom |-> exportFromNodeFilter(probe),
           before |-> ignoreVisitor("exportFromNodeFilter", probe),
           afterEsModule |-> onSubstituteNode(HookFilter("removeExportEsModule"), probe),
           afterDefault |-> onSubstituteNode(HookFilter("removeExportsDefault"), probe),
           afterBoth |-> onSubstituteNode(
                             RegisterHooks(Transformers(MergeRequest(Undef), "after")),
                             probe),
           text |-> <<>>]
    /\ UNCHANGED <<pc, callVars, mergeVars, calls, probe, pending, heap>>

(* ts2gas on the source whose one statement is the node. *)
CompileProbe ==
    /\ pc = "filters"
    /\ verdict.given
    /\ ~verdict.compiled
    /\ probe \in SourceProbes
    /\ \E opts \in CallOptions :
          verdict' = [verdict EXCEPT !.compiled = TRUE,
                                     !.text = Run(<<probe>>, opts)]
    /\ UNCHANGED <<pc, callVars, mergeVars, calls, probe, pending, heap>>

NextFilters == ApplyFilters \/ CompileProbe

SpecFilters == InitFilters /\ [][NextFilters]_vars

---------------------------------------------------------------------------
(* The earlier variant of ts2gas: ignoreExportFrom is built by             *)
(* ignoreNodeAfterBuilder for the expression-statement kind and stands in  *)
(* the `before` list, a matched import is replaced by a not-emitted        *)
(* statement without a comment, the target is always ES3, and the two      *)
(* guard lines are always written after the banner.                        *)

(* The filter an earlier-variant transformer adds to the onSubstituteNode  *)
(* chain when its factory is called.                                       *)
HookFilterEarlier(transformer) ==
    CASE transformer = "ignoreExportFrom" -> <<"exportFromNodeFilter">>
      [] transformer = "removeExportEsModule" -> <<"exportEsModuleNodeFilterEarlier">>
      [] transformer = "removeExportsDefault" -> <<"exportsDefaultNodeFilter">>
      [] OTHER -> <<>>

(* The earlier variant's visitNode: a matched node becomes a not-emitted   *)
(* statement, with no comment.                                             *)
RECURSIVE ignoreVisitorEarlier(_, _)
ignoreVisitorEarlier(filter, node) ==
    IF NodeFilter(filter, node)
    THEN createNotEmittedStatement(node)
    ELSE [node EXCEPT !.children =
             [i \in DOMAIN node.children |->
                 ignoreVisitorEarlier(filter, node.children[i])]]

(* The earlier ts2gas(source) as a function: before [ignoreExportFrom,     *)
(* ignoreImport], after [removeExportEsModule, removeExportsDefault].      *)
RunEarlier(src) ==
    LET parsed == ParseSource(src)
        before == [parsed EXCEPT !.statements =
                      [i \in DOMAIN parsed.statements |->
                          ignoreVisitorEarlier("importNodeFilter", parsed.statements[i])]]
        chain == HookFilterEarlier("ignoreExportFrom")
                 \o HookFilterEarlier("ignoreImport")
                 \o HookFilterEarlier("removeExportEsModule")
                 \o HookFilterEarlier("removeExportsDefault")
    IN  <<Banner, CodeLine(ExportsGuard), CodeLine(ModuleGuard)>>
        \o EmitText(chain, TransformTree(before, ScriptTarget_ES3))

InitEarlier ==
    /\ pc = "earlier"
    /\ source \in Sources
    /\ options = Undef
    /\ request = EmptyMap
    /\ addDummyModule = FALSE
    /\ hooks = <<>>
    /\ tree = NoTree
    /\ scanned = NoTree
    /\ outputText = <<>>
    /\ output = <<>>
    /\ thrown = "none"
    /\ compileCalls = 0
    /\ compileRaised = FALSE
    /\ mergeTarget = EmptyMap
    /\ mergeSource = EmptyMap
    /\ mergeResult = EmptyMap
    /\ mergeCount = 0
    /\ calls = <<>>
    /\ probe = NoNode
    /\ verdict = NoVerdict
    /\ pending = <<>>
    /\ heap = NoHeap

CompileEarlier ==
    /\ pc = "earlier"
    /\ pc' = "earlierDone"
    /\ output' = RunEarlier(source)
    /\ compileCalls' = compileCalls + 1
    /\ UNCHANGED <<source, options, request, addDummyModule, hooks, tree,
                   scanned, outputText, thrown, compileRaised>>
    /\ UNCHANGED <<mergeVars, sideVars>>

SpecEarlier == InitEarlier /\ [][CompileEarlier]_vars

---------------------------------------------------------------------------
(* The options merger on objects with identity.  The heap is a sequence of *)
(* objects, an object's address its index; a plain object has its own      *)
(* properties (m) and a prototype (proto, 0 for null), an array its        *)
(* elements (a).  A value is a scalar or a reference to an object.         *)
(* Reflect.get reads inherited properties and the __proto__ accessor of    *)
(* Object.prototype; Reflect.set on a key the target does not own runs     *)
(* that accessor's setter for __proto__ and adds an own property for any   *)
(* other key.                                                              *)

ObjectPrototype == 1

Ref(at) == [t |-> "ref", at |-> at]

PlainObject == [kind |-> "object", proto |-> ObjectPrototype, m |-> EmptyMap, a |-> <<>>]

ArrayObject(elements) ==
    [kind |-> "array", proto |-> ObjectPrototype, m |-> EmptyMap, a |-> elements]

IsArrayRef(objs, v) == v.t = "ref" /\ objs[v.at].kind = "array"

IsObjectRef(objs, v) == v.t = "ref" /\ objs[v.at].kind = "object"

(* Reflect.ownKeys(o), in the order the keys were added. *)
RECURSIVE KeySeq(_)
KeySeq(keys) ==
    IF keys = {} THEN <<>>
    ELSE LET k == CHOOSE x \in keys : TRUE
         IN  <<k>> \o KeySeq(keys \ {k})

Extend(m, k, v) == [j \in DOMAIN m \cup {k} |-> IF j = k THEN v ELSE m[j]]

(* Reflect.get(objs[at], k) *)
RECURSIVE HeapGet(_, _, _)
HeapGet(objs, at, k) ==
    LET o == objs[at]
    IN  IF k \in DOMAIN o.m THEN o.m[k]
        ELSE IF k = "__proto__"
        THEN (IF o.proto # 0 THEN Ref(o.proto)
              ELSE IF at = ObjectPrototype THEN Null ELSE Undef)
        ELSE IF o.proto = 0 THEN Undef
        ELSE HeapGet(objs, o.proto, k)

(* Reflect.set(objs[at], k, v) *)
HeapSet(objs, at, k, v) ==
    IF k \in DOMAIN objs[at].m THEN [objs EXCEPT ![at].m[k] = v]
    ELSE IF k = "__proto__" /\ at = ObjectPrototype THEN objs
    ELSE IF k = "__proto__" /\ objs[at].proto # 0
    THEN (IF v.t = "ref" THEN [objs EXCEPT ![at].proto = v.at]
          ELSE IF v = Null THEN [objs EXCEPT ![at].proto = 0]
          ELSE objs)
    ELSE [objs EXCEPT ![at].m = Extend(@, k, v)]

(* The loop over the keys of one source of deepAssign, writing into the    *)
(* object at `target`.                                                     *)
RECURSIVE deepAssignKeys(_, _, _, _)
deepAssignKeys(objs, target, src, keys) ==
    IF keys = <<>> THEN objs
    ELSE LET key == Head(keys)
             targetValue == HeapGet(objs, target, key)
             value == HeapGet(objs, src, key)
             written ==
                IF key \notin DOMAIN objs[src].m THEN objs
                ELSE IF IsArrayRef(objs, value)
                THEN IF IsArrayRef(objs, targetValue)
                     THEN HeapSet(Append(objs, ArrayObject(objs[targetValue.at].a
                                                           \o objs[value.at].a)),
                                  target, key, Ref(Len(objs) + 1))
                     ELSE HeapSet(objs, target, key, value)
                ELSE IF IsObjectRef(objs, value)
                THEN LET into == IF IsObjectRef(objs, targetValue)
                                 THEN targetValue.at ELSE Len(objs) + 1
                         start == IF IsObjectRef(objs, targetValue)
                                  THEN objs ELSE Append(objs, PlainObject)
                         merged == deepAssignKeys(start, into, value.at,
                                                  KeySeq(DOMAIN start[value.at].m))
                     IN  HeapSet(merged, target, key, Ref(into))
                ELSE IF value # Undef THEN HeapSet(objs, target, key, value)
                ELSE objs
         IN  deepAssignKeys(written, target, src, Tail(keys))

(* A value of the caller, or a layer of ts2gas, as objects of the heap. *)
RECURSIVE Store(_, _)
RECURSIVE StoreMembers(_, _, _, _)
Store(objs, v) ==
    IF v.t = "array"
    THEN [objs |-> Append(objs, ArrayObject(v.a)), v |-> Ref(Len(objs) + 1)]
    ELSE IF v.t = "object"
    THEN [objs |-> StoreMembers(Append(objs, PlainObject), Len(objs) + 1, v.o,
                                KeySeq(DOMAIN v.o)),
          v |-> Ref(Len(objs) + 1)]
    ELSE [objs |-> objs, v |-> v]

StoreMembers(objs, at, o, keys) ==
    IF keys = <<>> THEN objs
    ELSE LET member == Store(objs, o[Head(keys)])
         IN  StoreMembers([member.objs EXCEPT ![at].m = Extend(@, Head(keys), member.v)],
                          at, o, Tail(keys))

(* A value of the heap without the identities of its objects; only own     *)
(* properties are read.                                                    *)
RECURSIVE Deref(_, _)
Deref(objs, v) ==
    IF IsArrayRef(objs, v) THEN Arr(objs[v.at].a)
    ELSE IF IsObjectRef(objs, v)
    THEN Obj([k \in DOMAIN objs[v.at].m |-> Deref(objs, objs[v.at].m[k])])
    ELSE v

(* compilerOptions values of a caller: plain ones, and ones that own a     *)
(* key named __proto__, as JSON.parse makes them.                          *)
HeapCompilerOptions ==
    {Undef,
     Obj([target |-> Num(ScriptTarget_ES2015)]),
     Obj([target |-> Undef, module |-> Num(1), noLib |-> Bool(TRUE)]),
     Obj([lib |-> Arr(<<Str("es5")>>), paths |-> Obj([a |-> Arr(<<Str("b")>>)])]),
     Obj("__proto__" :> Num(1)),
     Obj("__proto__" :> Obj([polluted |-> Bool(TRUE)])),
     Obj("__proto__" :> Obj([transformers |->
                                Obj([before |-> Arr(<<Fn("callerTransformer")>>)])])),
     Obj("__proto__" :> Arr(<<Str("es5")>>) @@ [target |-> Num(ScriptTarget_ES2015)])}

HeapCallerOptions ==
    {Undef, Null, Str("options"), Num(1), Arr(<<>>)}
    \cup {Obj(WithCompilerOptions(extra, co)) :
             extra \in CallerExtras, co \in HeapCompilerOptions}

(* The heap when ts2gas is entered: Object.prototype, the defaults and     *)
(* statics layers, and the caller's options.                               *)
BuildHeap(opts) ==
    LET base == <<[PlainObject EXCEPT !.proto = 0]>>
        d == Store(base, Obj(defaults))
        st == Store(d.objs, Obj(statics))
        c == Store(st.objs, opts)
    IN  [objs |-> c.objs, prev |-> c.objs, defaults |-> d.v.at,
         statics |-> st.v.at, caller |-> c.v, overrides |-> 0, target |-> 0]

InitHeap ==
    /\ pc = "heap"
    /\ source = <<>>
    /\ options \in HeapCallerOptions
    /\ request = EmptyMap
    /\ addDummyModule = FALSE
    /\ hooks = <<>>
    /\ tree = NoTree
    /\ scanned = NoTree
    /\ outputText = <<>>
    /\ output = <<>>
    /\ thrown = "none"
    /\ compileCalls = 0
    /\ compileRaised = FALSE
    /\ mergeTarget = EmptyMap
    /\ mergeSource = EmptyMap
    /\ mergeResult = EmptyMap
    /\ mergeCount = 0
    /\ calls = <<>>
    /\ probe = NoNode
    /\ verdict = NoVerdict
    /\ pending = <<>>
    /\ heap = BuildHeap(options)

(* Destructuring null raises. *)
HeapSanitizeRaises ==
    /\ pc = "heap"
    /\ heap.overrides = 0
    /\ heap.caller = Null
    /\ pc' = "error"
    /\ thrown' = "TypeError"
    /\ UNCHANGED <<source, options, request, addDummyModule, hooks, tree,
                   scanned, outputText, output, compileCalls, compileRaised>>
    /\ UNCHANGED <<mergeVars, sideVars>>

(* Keep only the override-able properties: a new object with the two       *)
(* properties read from the caller's object (an omitted argument is {}),   *)
(* or a new empty object; then the {} deepAssign is to write.              *)
HeapSanitize ==
    /\ pc = "heap"
    /\ heap.overrides = 0
    /\ heap.caller # Null
    /\ LET read(k) == IF heap.caller.t = "ref"
                      THEN HeapGet(heap.objs, heap.caller.at, k)
                      ELSE HeapGet(heap.objs, ObjectPrototype, k)
           kept == IF heap.caller.t = "ref" \/ heap.caller = Undef
                   THEN [PlainObject EXCEPT
                            !.m = [compilerOptions |-> read("compilerOptions"),
                                   renamedDependencies |-> read("renamedDependencies")]]
                   ELSE PlainObject
           made == heap.objs \o <<kept, PlainObject>>
       IN  heap' = [heap EXCEPT !.objs = made, !.prev = made,
                                !.overrides = Len(heap.objs) + 1,
                                !.target = Len(heap.objs) + 2]
    /\ UNCHANGED <<pc, callVars, mergeVars, calls, probe, verdict, pending>>

HeapLayers == <<heap.defaults, heap.overrides, heap.statics>>

(* One round of deepAssign's loop over defaults, the caller's overrides    *)
(* and statics.                                                            *)
HeapMergeRound ==
    /\ pc = "heap"
    /\ heap.overrides # 0
    /\ mergeCount < Len(HeapLayers)
    /\ LET src == HeapLayers[mergeCount + 1]
       IN  heap' = [heap EXCEPT
                       !.prev = heap.objs,
                       !.objs = deepAssignKeys(heap.objs, heap.target, src,
                                               KeySeq(DOMAIN heap.objs[src].m))]
    /\ mergeCount' = mergeCount + 1
    /\ UNCHANGED <<pc, callVars, mergeTarget, mergeSource, mergeResult,
                   calls, probe, verdict, pending>>

NextHeap == HeapSanitizeRaises \/ HeapSanitize \/ HeapMergeRound

SpecHeap == InitHeap /\ [][NextHeap]_vars

---------------------------------------------------------------------------
(* detectExportNodes call by call: the visitor is called on the nodes of   *)
(* the tree the after passes receive, in the order of the traversal.       *)

InitDetect ==
    /\ pc = "detect"
    /\ source \in Sources
    /\ options = Undef
    /\ request = MergeRequest(Undef)
    /\ addDummyModule = FALSE
    /\ hooks = <<>>
    /\ tree = TransformTree(
                  RunBeforeList(Transformers(MergeRequest(Undef), "before"),
                                ParseSource(source)),
                  Target(MergeRequest(Undef)))
    /\ scanned = tree
    /\ outputText = <<>>
    /\ output = <<>>
    /\ thrown = "none"
    /\ compileCalls = 1
    /\ compileRaised = FALSE
    /\ mergeTarget = EmptyMap
    /\ mergeSource = EmptyMap
    /\ mergeResult = EmptyMap
    /\ mergeCount = 0
    /\ calls = <<>>
    /\ probe = NoNode
    /\ verdict = NoVerdict
    /\ pending = tree.statements
    /\ heap = NoHeap

(* The next call of the visitor. *)
DetectVisit ==
    /\ pc = "detect"
    /\ pending # <<>>
    /\ LET call == visitor(Head(pending), addDummyModule)
       IN  /\ addDummyModule' = call.flag
           /\ pending' = call.visit \o Tail(pending)
    /\ UNCHANGED <<pc, source, options, request, hooks, tree, scanned,
                   outputText, output, thrown, compileCalls, compileRaised>>
    /\ UNCHANGED <<mergeVars, calls, probe, verdict, heap>>

SpecDetect == InitDetect /\ [][DetectVisit]_vars

---------------------------------------------------------------------------
(* deepAssign on its own: the rounds of its loop over the sources, from    *)
(* any target, with any source in each round.                              *)

MaxSources == 2

MergeKeys == {"a", "b"}

MergeLeaves ==
    {Undef, Num(1), Arr(<<Fn("A")>>), Arr(<<Fn("B"), Fn("C")>>)}

InnerMaps == UNION {[ks -> MergeLeaves] : ks \in SUBSET {"a"}}

MergeValues == MergeLeaves \cup {Obj(m) : m \in InnerMaps}

MergeMaps == UNION {[ks -> MergeValues] : ks \in SUBSET MergeKeys}

InitMerge ==
    /\ pc = "deepAssign"
    /\ source = <<>>
    /\ options = Undef
    /\ request = EmptyMap
    /\ addDummyModule = FALSE
    /\ hooks = <<>>
    /\ tree = NoTree
    /\ scanned = NoTree
    /\ outputText = <<>>
    /\ output = <<>>
    /\ thrown = "none"
    /\ compileCalls = 0
    /\ compileRaised = FALSE
    /\ mergeTarget \in MergeMaps
    /\ mergeSource = EmptyMap
    /\ mergeResult = mergeTarget
    /\ mergeCount = 0
    /\ calls = <<>>
    /\ probe = NoNode
    /\ verdict = NoVerdict
    /\ pending = <<>>
    /\ heap = NoHeap

(* One round of `for (const source of sources)`: mergeTarget is the        *)
(* accumulated target before the round, mergeResult the target after it.   *)
DeepAssignRound ==
    /\ pc = "deepAssign"
    /\ mergeCount < MaxSources
    /\ \E src \in MergeMaps :
          /\ mergeSource' = src
          /\ mergeTarget' = mergeResult
          /\ mergeResult' = deepAssignOne(mergeResult, src)
    /\ mergeCount' = mergeCount + 1
    /\ UNCHANGED <<pc, callVars, sideVars>>

NextMerge == DeepAssignRound

SpecMerge == InitMerge /\ [][NextMerge]_vars

---------------------------------------------------------------------------
(* What the claims speak about. *)

Returned == pc = "done"

Merged == pc \notin {"start", "error", "deepAssign"}

GuardLines == {CodeLine(ExportsGuard), CodeLine(ModuleGuard)}

(* Both guard lines, one after the other. *)
HasPreamble(text) ==
    \E i \in 1..(Len(text) - 1) :
        text[i] = CodeLine(ExportsGuard) /\ text[i + 1] = CodeLine(ModuleGuard)

HasGuardLine(text) == \E i \in DOMAIN text : text[i] \in GuardLines

(* An identifier whose text is `exports`, anywhere in the node. *)
RECURSIVE MentionsExports(_)
MentionsExports(node) ==
    \/ node.kind = "Identifier" /\ node.text = "exports"
    \/ \E i \in DOMAIN node.children : MentionsExports(node.children[i])

TreeMentionsExports(sf) ==
    \E i \in DOMAIN sf.statements : MentionsExports(sf.statements[i])

IsImportStatement(stmt) ==
    stmt.kind \in {"ImportEqualsDeclaration", "ImportDeclaration"}

IsExportStatement(stmt) ==
    \/ stmt.kind \in {"ExportDeclaration", "ExportAssignment"}
    \/ "export" \in stmt.modifiers

IsExportFromStatement(stmt) ==
    stmt.kind = "ExportDeclaration" /\ "FromKeyword" \in {stmt.tokens[i] : i \in DOMAIN stmt.tokens}

(* exports.pi = 3.141592; *)
IsExportsPiAssignment(line) ==
    /\ line.k = "code"
    /\ line.node.kind = "ExpressionStatement"
    /\ line.node.children[1].kind = "BinaryExpression"
    /\ line.node.children[1].text = "EqualsToken"
    /\ line.node.children[1].children[1].kind = "PropertyAccessExpression"
    /\ line.node.children[1].children[1].children[1].text = "exports"
    /\ line.node.children[1].children[1].children[2].text = "pi"
    /\ line.node.children[1].children[2].text = "3.141592"

AssignsToExports(stmt) ==
    /\ stmt.kind = "ExpressionStatement"
    /\ stmt.children[1].kind = "BinaryExpression"
    /\ stmt.children[1].text = "EqualsToken"
    /\ MentionsExports(stmt.children[1].children[1])

AssignsNoExports(stmt) == ~IsExportStatement(stmt) /\ ~AssignsToExports(stmt)

NewlinesBefore(text, i) == Cardinality({j \in 1..(i - 1) : text[j] = "\n"})

(* `out` is `text` with each line feed replaced by backslash, n. *)
IsEscapeOf(out, text) ==
    /\ Len(out) = Len(text) + NewlinesBefore(text, Len(text) + 1)
    /\ \A i \in DOMAIN text :
          LET j == i + NewlinesBefore(text, i)
          IN  IF text[i] = "\n"
              THEN out[j] = "\\" /\ out[j + 1] = "n"
              ELSE out[j] = text[i]

LinesAt(text, at) == {j \in DOMAIN text : text[j].at = at}

CallerCO ==
    IF options.t = "object" /\ isObject(Get(options.o, "compilerOptions"))
    THEN options.o["compilerOptions"].o
    ELSE EmptyMap

(* The caller gave compilerOptions as a plain object, or gave none. *)
CallerCOWellTyped ==
    \/ options.t # "object"
    \/ Get(options.o, "compilerOptions") = Undef
    \/ isObject(Get(options.o, "compilerOptions"))

RequestCO ==
    IF isObject(Get(request, "compilerOptions"))
    THEN request["compilerOptions"].o
    ELSE EmptyMap

StaticKeys == DOMAIN statics.compilerOptions.o

C5_Original ==
    Merged => Get(RequestCO, "target") = Num(ScriptTarget_ES3)

(* C5 as amended: the target is a default, not a mandatory setting: the    *)
(* request's target is the caller's target when the caller's               *)
(* compilerOptions object defines one, and ES3 when the caller gave no     *)
(* compilerOptions or a compilerOptions object without a defined target.   *)
C5_TargetDefaultsToES3 ==
    (Merged /\ CallerCOWellTyped) =>
        Get(RequestCO, "target") =
            IF Get(CallerCO, "target") # Undef THEN CallerCO["target"]
            ELSE Num(ScriptTarget_ES3)

C5_Witness ==
    /\ Merged
    /\ Get(CallerCO, "target") = Num(ScriptTarget_ES2015)
    /\ RequestCO["target"] = Num(ScriptTarget_ES2015)

ImposedByCompiler == {"isolatedModules", "noLib", "noResolve"}

Concatenated(t, s, r) ==
    /\ IsArray(r)
    /\ Len(r.a) = Len(t.a) + Len(s.a)
    /\ \A i \in DOMAIN t.a : r.a[i] = t.a[i]
    /\ \A i \in DOMAIN s.a : r.a[Len(t.a) + i] = s.a[i]

(* The mapping r holds the defined members of the mapping s and no other. *)
CopyOfDefined(r, s) ==
    /\ DOMAIN r = {k \in DOMAIN s : s[k] # Undef}
    /\ \A k \in DOMAIN r : r[k] = s[k]

ArrayKeyAsStated(t, s, r) ==
    /\ (IsArray(t) /\ IsArray(s)) => Concatenated(t, s, r)
    /\ (IsArray(t) # IsArray(s)) => r = s

ArrayKeyAsAmended(t, s, r) ==
    /\ (IsArray(t) /\ IsArray(s)) => Concatenated(t, s, r)
    /\ (IsArray(s) /\ ~IsArray(t)) => r = s
    /\ (IsArray(t) /\ ~IsArray(s)) =>
          IF s = Undef THEN r = t
          ELSE IF isObject(s) THEN isObject(r) /\ CopyOfDefined(r.o, s.o)
          ELSE r = s

(* C7 as stated: in one round of deepAssign, a key that is an array on     *)
(* both sides becomes target elements followed by source elements; a key   *)
(* that is an array on one side only takes the source value.               *)
C7_Original ==
    (pc = "deepAssign" /\ mergeCount > 0) =>
        \A k \in DOMAIN mergeSource :
            /\ ArrayKeyAsStated(Get(mergeTarget, k), mergeSource[k], Get(mergeResult, k))
            /\ (isObject(Get(mergeTarget, k)) /\ isObject(mergeSource[k])) =>
                  \A j \in DOMAIN mergeSource[k].o :
                      ArrayKeyAsStated(Get(mergeTarget[k].o, j), mergeSource[k].o[j],
                                       Get(mergeResult[k].o, j))

(* C7 as amended: in one round of deepAssign, a key that is an array on    *)
(* both sides becomes target elements followed by source elements, order   *)
(* kept, nothing dropped or duplicated; an array source replaces a         *)
(* non-array target; a defined non-array source replaces an array target   *)
(* (a plain object as a fresh copy of its defined members); an undefined   *)
(* source value leaves the target array as it is.                          *)
C7_ArraysConcatenate ==
    (pc = "deepAssign" /\ mergeCount > 0) =>
        \A k \in DOMAIN mergeSource :
            /\ ArrayKeyAsAmended(Get(mergeTarget, k), mergeSource[k], Get(mergeResult, k))
            /\ (isObject(Get(mergeTarget, k)) /\ isObject(mergeSource[k])) =>
                  \A j \in DOMAIN mergeSource[k].o :
                      ArrayKeyAsAmended(Get(mergeTarget[k].o, j), mergeSource[k].o[j],
                                        Get(mergeResult[k].o, j))

C7_Witness ==
    /\ pc = "deepAssign"
    /\ mergeCount = 2
    /\ Get(mergeTarget, "a") = Arr(<<Fn("A")>>)
    /\ Get(mergeSource, "a") = Arr(<<Fn("B"), Fn("C")>>)
    /\ Get(mergeResult, "a") = Arr(<<Fn("A"), Fn("B"), Fn("C")>>)
    /\ Get(mergeTarget, "b") = Arr(<<Fn("A")>>)
    /\ "b" \in DOMAIN mergeSource
    /\ mergeSource["b"] = Undef
    /\ Get(mergeResult, "b") = Arr(<<Fn("A")>>)

RequestKeys == {"compilerOptions", "renamedDependencies", "transformers"}

C9_Original ==
    Returned =>
        /\ output[1] = Banner
        /\ Tail(output) = outputText
        /\ HasGuardLine(output) =>
              /\ Len(output) >= 3
              /\ output[2] = CodeLine(ExportsGuard)
              /\ output[3] = CodeLine(ModuleGuard)

HelperLines(text) == {i \in DOMAIN text : text[i].k = "helper"}

(* C9 as amended: the returned text is the banner line followed by the     *)
(* compiler's output text unchanged; the banner is the first line; the     *)
(* guard preamble, when present, comes directly after the banner unless    *)
(* the compiler printed emit-helper text, which stands between the banner  *)
(* and the preamble.                                                       *)
C9_BannerThenOutputText ==
    Returned =>
        LET h == Cardinality(HelperLines(output))
        IN  /\ output[1] = Banner
            /\ Tail(output) = outputText
            /\ HelperLines(output) = 2..(1 + h)
            /\ HasGuardLine(output) =>
                  /\ Len(output) >= 3 + h
                  /\ output[2 + h] = CodeLine(ExportsGuard)
                  /\ output[3 + h] = CodeLine(ModuleGuard)

C9_Witness ==
    /\ Returned
    /\ source = <<ExportConst, SpreadStmt>>
    /\ output[1] = Banner
    /\ output[2].k = "helper"
    /\ output[3] = CodeLine(ExportsGuard)
    /\ output[4] = CodeLine(ModuleGuard)

(* A printed statement `exports.default = ...`. *)
IsExportsDefaultAssignment(line) ==
    /\ line.k = "code"
    /\ line.node.kind = "ExpressionStatement"
    /\ line.node.children[1].kind = "BinaryExpression"
    /\ line.node.children[1].text = "EqualsToken"
    /\ line.node.children[1].children[1].kind = "PropertyAccessExpression"
    /\ line.node.children[1].children[1].children[1].text = "exports"
    /\ line.node.children[1].children[1].children[2].text = "default"

(* C10: for a source with a default export the returned text holds the     *)
(* guard preamble and no statement assigning to exports["default"].        *)
C10_DefaultExportRemoved ==
    Returned =>
        ((\E i \in DOMAIN source : source[i].kind = "ExportAssignment")
         => /\ HasPreamble(output)
            /\ \A j \in DOMAIN output : ~IsExportsDefaultAssignment(output[j]))

BeforeDone == pc = "before"

RECURSIVE IdentifiersFlagged(_, _)
IdentifiersFlagged(node, parentKind) ==
    /\ (node.kind = "Identifier" /\ parentKind # "EnumDeclaration")
       => "NoSubstitution" \in node.flags
    /\ \A i \in DOMAIN node.children :
          IdentifiersFlagged(node.children[i], node.kind)

(* A name printed as a property of an imported module: module_1.Name *)
RECURSIVE Qualified(_)
Qualified(node) ==
    \/ /\ node.kind = "PropertyAccessExpression"
       /\ node.children[1].kind = "Identifier"
       /\ node.children[1].text = "module_1"
    \/ \E i \in DOMAIN node.children : Qualified(node.children[i])

CodeLinesAt(text, at) == {j \in DOMAIN text : text[j].k = "code" /\ text[j].at = at}

(* C13: once the before passes have run, every identifier whose parent is  *)
(* not an enum declaration carries the NoSubstitution flag; and the        *)
(* returned text spells every such identifier as the source does: no name  *)
(* is printed module-qualified, and `new Module()` after                   *)
(* `import { Module } from ...` is printed as `new Module()`.              *)
C13_IdentifiersKeepTheirSpelling ==
    /\ BeforeDone =>
          \A i \in DOMAIN tree.statements :
              IdentifiersFlagged(tree.statements[i], "SourceFile")
    /\ Returned =>
          /\ \A j \in DOMAIN output :
                output[j].k = "code" => ~Qualified(output[j].node)
          /\ \A i \in DOMAIN source :
                source[i] = UseImported =>
                    /\ CodeLinesAt(output, i - 1) # {}
                    /\ \A j \in CodeLinesAt(output, i - 1) :
                          LET new == declaration(output[j].node).children[2]
                          IN  /\ new.kind = "NewExpression"
                              /\ new.children[1].kind = "Identifier"
                              /\ new.children[1].text = "Module"

C13_Witness ==
    /\ Returned
    /\ source = <<ImportFrom, UseImported>>
    /\ "Module" \in tree.imports
    /\ output[Len(output)].k = "code"
    /\ declaration(output[Len(output)].node).children[2].children[1].text = "Module"

(* What the comment-out passes make of a node of the source. *)
RECURSIVE CommentedRight(_, _)
CommentedRight(orig, res) ==
    IF importNodeFilter(orig) \/ exportFromNodeFilter(orig)
    THEN /\ res.kind = "NotEmittedStatement"
         /\ res.children = <<>>
         /\ Len(res.comments) = 1
    ELSE /\ res.kind = orig.kind
         /\ res.text = orig.text
         /\ res.comments = <<>>
         /\ Len(res.children) = Len(orig.children)
         /\ \A i \in DOMAIN orig.children :
               CommentedRight(orig.children[i], res.children[i])

(* C15: once the before passes have run, a node of the source is replaced  *)
(* by a commented-out statement exactly when it matches the filter of a    *)
(* comment-out pass and no node above it does: a matched node is replaced  *)
(* whole, at whatever depth it stands, and every other node is kept, in    *)
(* its place among its siblings.                                           *)
C15_OutermostMatchReplaced ==
    BeforeDone =>
        /\ Len(tree.statements) = Len(source)
        /\ \A i \in DOMAIN source : CommentedRight(source[i], tree.statements[i])

C15_Witness ==
    /\ BeforeDone
    /\ source = <<NamespaceStmt(<<NamespaceStmt(<<ImportEquals(<<"\n">>)>>), UseImported>>),
                  ImportFrom>>
    /\ LET outer == tree.statements[1].children[2]
       IN  /\ outer.children[1].kind = "ModuleDeclaration"
           /\ outer.children[1].children[2].children[1].kind = "NotEmittedStatement"
           /\ outer.children[2].kind = "VariableStatement"
    /\ tree.statements[2].kind = "NotEmittedStatement"

RECURSIVE FlagsExact(_, _)
FlagsExact(node, parentKind) ==
    /\ ("NoSubstitution" \in node.flags)
       <=> (node.kind = "Identifier" /\ parentKind # "EnumDeclaration")
    /\ \A i \in DOMAIN node.children : FlagsExact(node.children[i], node.kind)

(* exports.Languages, anywhere in the node. *)
RECURSIVE HasExportsLanguages(_)
HasExportsLanguages(node) ==
    \/ /\ node.kind = "PropertyAccessExpression"
       /\ node.children[1].text = "exports"
       /\ node.children[2].text = "Languages"
    \/ \E i \in DOMAIN node.children : HasExportsLanguages(node.children[i])

(* C17: once the before passes have run, a node carries the NoSubstitution *)
(* flag exactly when it is an identifier whose parent is not an enum       *)
(* declaration, at every depth (the members below an enum's name           *)
(* included); the name of an exported enum, left unflagged, is still       *)
(* substituted by the compiler: it is printed as exports.Languages.        *)
C17_EnumNamesStaySubstitutable ==
    /\ BeforeDone =>
          \A i \in DOMAIN tree.statements :
              FlagsExact(tree.statements[i], "SourceFile")
    /\ Returned =>
          ((\E i \in DOMAIN source : source[i] = EnumStmt({"export"}))
           => \E j \in DOMAIN output :
                 /\ output[j].k = "code"
                 /\ output[j].node.kind = "ExpressionStatement"
                 /\ output[j].node.children[1].kind = "CallExpression"
                 /\ HasExportsLanguages(output[j].node.children[1].children[2]))

C17_Witness ==
    /\ Returned
    /\ source = <<EnumStmt({"export"})>>
    /\ Len(output) = 6
    /\ HasExportsLanguages(output[6].node.children[1].children[2])
    /\ output[6].node.children[1].children[1].children[2].children[1].flags
          = {"NoSubstitution"}

RECURSIVE NoThisFlagged(_)
NoThisFlagged(node) ==
    /\ node.kind = "ThisKeyword" => node.flags = {}
    /\ \A i \in DOMAIN node.children : NoThisFlagged(node.children[i])

(* C18: the no-substitution pass leaves every `this` unflagged; in the     *)
(* returned text a `this` inside an arrow function is `_this` below ES2015 *)
(* (and `this` from ES2015 on, the arrow function being kept), while a     *)
(* `this` outside any arrow function is `this`.                            *)
C18_ThisIsNotFlagged ==
    /\ BeforeDone =>
          \A i \in DOMAIN tree.statements : NoThisFlagged(tree.statements[i])
    /\ Returned =>
          \A i \in DOMAIN source :
              source[i] = ThisStmt =>
                  /\ CodeLinesAt(output, i - 1) # {}
                  /\ \A j \in CodeLinesAt(output, i - 1) :
                        LET call == output[j].node.children[1]
                            inArrow == call.children[3].children[1].children[1]
                        IN  /\ call.children[2].children[1].kind = "ThisKeyword"
                            /\ IF Target(request) < ScriptTarget_ES2015
                               THEN /\ inArrow.kind = "Identifier"
                                    /\ inArrow.text = "_this"
                               ELSE inArrow.kind = "ThisKeyword"

C18_Witness ==
    /\ Returned
    /\ source = <<ThisStmt>>
    /\ options = Undef
    /\ Len(output) = 3
    /\ output[2] = CodeLine(createVariableStatement("_this", Synthetic("ThisKeyword", "", <<>>)))
    /\ output[3].node.children[1].children[3].children[1].children[1].text = "_this"

(* The characters that end a line of JavaScript text, of those a statement *)
(* of the inputs can hold.                                                 *)
LineTerminators == {"\n", "\r"}

(* C14: in the returned text no comment standing for an import or          *)
(* export-from statement holds a line terminator, whatever line-break      *)
(* characters the statement's text holds. Only the line feed is escaped:   *)
(* a statement broken by a carriage return leaves it in the comment.       *)
C14_CommentHoldsNoLineTerminator ==
    Returned =>
        \A j \in DOMAIN output :
            output[j].k = "comment" =>
                \A c \in DOMAIN output[j].text :
                    output[j].text[c] \notin LineTerminators

(* A node without its position range, flags, tokens and source text. *)
RECURSIVE Shape(_)
Shape(node) ==
    [kind |-> node.kind, text |-> node.text,
     children |-> [i \in DOMAIN node.children |-> Shape(node.children[i])]]

(* <object>.<property> <any operator> <any right side>; *)
AssignsTo(node, object, property) ==
    /\ node.kind = "ExpressionStatement"
    /\ node.children[1].kind = "BinaryExpression"
    /\ Shape(node.children[1].children[1])
          = Shape(PropertyAccess(Id(object), Id(property)))

Operator(node) == node.children[1].text

RightSide(node) == node.children[1].children[2]

IsSyntheticRange(node) == node.pos = -1 /\ node.end = -1

(* An export declaration's module specifier, the operand of its `from`. *)
HasModuleSpecifier(node) ==
    \E i \in DOMAIN node.children : node.children[i].kind = "StringLiteral"

CommentLinesAt(text, at) ==
    {j \in DOMAIN text : text[j].k = "comment" /\ text[j].at = at}

(* C16: exportFromNodeFilter matches a node exactly when it is an export   *)
(* declaration with a `from` clause: `export * from` and                   *)
(* `export { foo } from` are matched and replaced by a commented-out       *)
(* statement; `export { a };`, `export default X;`, `export const`,        *)
(* `export class` and `export function` are not matched and are left to    *)
(* the compiler as they are.                                               *)
C16_ExportFromIffFromClause ==
    verdict.given =>
        /\ verdict.exportFrom
           <=> (probe.kind = "ExportDeclaration" /\ HasModuleSpecifier(probe))
        /\ probe \in {ExportStar, ExportFrom} => verdict.exportFrom
        /\ probe \in {ExportNamed, ExportNamedFrom, ExportDefaultId,
                      ExportDefaultLiteral, ExportConst, ExportClass,
                      ExportFunction}
           => ~verdict.exportFrom
        /\ IF verdict.exportFrom
           THEN /\ verdict.before.kind = "NotEmittedStatement"
                /\ Len(verdict.before.comments) = 1
           ELSE verdict.before = probe
        /\ (verdict.compiled /\ ~verdict.import)
           => IF verdict.exportFrom
              THEN /\ CommentLinesAt(verdict.text, 0) # {}
                   /\ CodeLinesAt(verdict.text, 0) = {}
              ELSE CommentLinesAt(verdict.text, 0) = {}

C16_Witness ==
    /\ verdict.given
    /\ verdict.compiled
    /\ probe = ExportStar
    /\ verdict.exportFrom
    /\ verdict.before.kind = "NotEmittedStatement"
    /\ CommentLinesAt(verdict.text, 0) # {}

(* C19 as stated: exportEsModuleNodeFilter is true exactly for an          *)
(* expression statement that assigns `true` to exports.__esModule and has  *)
(* the synthetic range. The filter looks at neither the operator nor the   *)
(* right side: a synthetic `exports.__esModule = foo;` is matched too.     *)
C19_Original ==
    verdict.given =>
        (verdict.exportEsModule
         <=> /\ AssignsTo(probe, "exports", "__esModule")
             /\ Operator(probe) = "EqualsToken"
             /\ RightSide(probe).kind = "TrueKeyword"
             /\ IsSyntheticRange(probe))

(* C19: exportEsModuleNodeFilter is true exactly for an expression         *)
(* statement with the synthetic range (pos = -1 and end = -1) whose        *)
(* expression is a binary expression with exports.__esModule on its left,  *)
(* whatever its operator and right side; the after pass built on it        *)
(* replaces exactly those nodes, and a user-authored                       *)
(* `exports.__esModule = true;`, which has a real range, is not matched    *)
(* and stays in the returned text.                                         *)
C19_EsModuleFilterNeedsSyntheticRange ==
    verdict.given =>
        /\ verdict.exportEsModule
           <=> (AssignsTo(probe, "exports", "__esModule") /\ IsSyntheticRange(probe))
        /\ IF verdict.exportEsModule
           THEN verdict.afterEsModule.kind = "NotEmittedStatement"
           ELSE verdict.afterEsModule = probe
        /\ (verdict.compiled /\ AssignsTo(probe, "exports", "__esModule"))
           => /\ ~verdict.exportEsModule
              /\ \E j \in CodeLinesAt(verdict.text, 0) :
                    Shape(verdict.text[j].node) = Shape(probe)

C19_Witness ==
    /\ verdict.given
    /\ verdict.compiled
    /\ Shape(probe) = Shape(UserEsModule)
    /\ probe.pos = 0
    /\ ~verdict.exportEsModule
    /\ CodeLinesAt(verdict.text, 0) # {}

C21_AfterHooksCompose ==
    verdict.given =>
        /\ verdict.afterBoth
              = IF exportsDefaultNodeFilter(verdict.afterEsModule)
                THEN createNotEmittedStatement(verdict.afterEsModule)
                ELSE verdict.afterEsModule
        /\ IF verdict.exportEsModule \/ verdict.exportsDefault
           THEN /\ verdict.afterBoth.kind = "NotEmittedStatement"
                /\ verdict.afterBoth.pos = probe.pos
                /\ verdict.afterBoth.end = probe.end
           ELSE verdict.afterBoth = probe
        /\ verdict.compiled =>
              \A j \in DOMAIN verdict.text :
                  verdict.text[j].k = "code"
                  => /\ ~exportEsModuleNodeFilter(verdict.text[j].node)
                     /\ ~exportsDefaultNodeFilter(verdict.text[j].node)

C21_Witness ==
    /\ verdict.given
    /\ AssignsTo(probe, "exports", "__esModule")
    /\ IsSyntheticRange(probe)
    /\ verdict.exportEsModule
    /\ ~verdict.exportsDefault
    /\ verdict.afterDefault = probe
    /\ verdict.afterBoth.kind = "NotEmittedStatement"

(* C22: in the earlier variant no line of the returned text stands for an  *)
(* export-from statement of the source. The hook is called for expression  *)
(* statements only and its filter asks for an export declaration, so it    *)
(* matches nothing: the statement the export-from compiles to is printed.  *)
C22_EarlierExportFromNotEmitted ==
    pc = "earlierDone" =>
        \A i \in DOMAIN source :
            IsExportFromStatement(source[i]) => LinesAt(output, i - 1) = {}

IsExportsIdentifier(node) == node.kind = "Identifier" /\ node.text = "exports"

(* C23: in every step of the traversal the flag stays set once it is set;  *)
(* it becomes set exactly in the call on an identifier `exports` made      *)
(* while it is not set (the first one in traversal order, a property name  *)
(* included); a call made with the flag set hands no child to the visitor; *)
(* and the flag at the end is the one detectExportNodes returns.           *)
C23_FlagSetOnceAtFirstExports ==
    [][/\ addDummyModule => addDummyModule'
       /\ (~addDummyModule /\ pending # <<>>)
          => (addDummyModule' <=> IsExportsIdentifier(Head(pending)))
       /\ addDummyModule => pending' = Tail(pending)
       /\ pending' = <<>>
          => addDummyModule' = detectExportNodes(tree, FALSE)]_vars

C23_Witness ==
    /\ pc = "detect"
    /\ source = <<ModuleExports, ConstStmt>>
    /\ addDummyModule
    /\ Len(pending) = 2
    /\ pending[1].kind = "NumericLiteral"
    /\ pending[2].kind = "VariableStatement"

AfterDone == pc \in {"after", "emitted", "done"}

Occurrences(seq, x) == Cardinality({i \in DOMAIN seq : seq[i] = x})

(* C24: once the after passes have run with the flag set, the statement    *)
(* list of the source file is the `exports` guard, the `module` guard, and *)
(* then the statements the after passes were given, each in its place;     *)
(* each guard stands in the list once, and once in the returned text,      *)
(* before every line that stands for a statement of the source.            *)
C24_GuardsPrependedOnce ==
    /\ (AfterDone /\ addDummyModule) =>
          /\ tree.statements = <<ExportsGuard, ModuleGuard>> \o scanned.statements
          /\ Occurrences(tree.statements, ExportsGuard) = 1
          /\ Occurrences(tree.statements, ModuleGuard) = 1
    /\ (Returned /\ addDummyModule) =>
          /\ HasPreamble(output)
          /\ \A j \in DOMAIN output :
                output[j].at >= 0
                => \E g \in 1..(j - 1) : output[g] = CodeLine(ModuleGuard)
          /\ Occurrences(output, CodeLine(ExportsGuard)) = 1
          /\ Occurrences(output, CodeLine(ModuleGuard)) = 1

C24_Witness ==
    /\ Returned
    /\ addDummyModule
    /\ source = <<ImportFrom, ReadExports>>
    /\ options = Undef
    /\ Len(tree.statements) = 5
    /\ tree.statements[1] = ExportsGuard
    /\ tree.statements[2] = ModuleGuard
    /\ tree.statements[3] = EsModuleMarker(ScriptTarget_ES3)
    /\ tree.statements[4].kind = "NotEmittedStatement"
    /\ tree.statements[5].kind = "ExpressionStatement"
    /\ Len(output) = 5

C29_SanitizeNeverRaises ==
    /\ thrown # "TypeError"
    /\ Merged =>
          /\ DOMAIN Sanitize(options) \subseteq {"compilerOptions", "renamedDependencies"}
          /\ options.t \notin {"object", "array"} =>
                \A k \in DOMAIN Sanitize(options) : Sanitize(options)[k] = Undef

(* C25: in a round of deepAssign, for every key the source owns whose      *)
(* value is not an array: undefined leaves the target's value, or the      *)
(* key's absence, as it was; a defined scalar is what the target holds     *)
(* afterwards; a mapping is merged member-wise, by these rules, into the   *)
(* target's mapping, or into an empty one when the target holds none.      *)
(* Under the key __proto__ the target's value is read and written through  *)
(* the accessor of Object.prototype: a scalar is dropped and a mapping is  *)
(* merged into Object.prototype.                                           *)
C25_PerKeyRules ==
    (pc = "heap" /\ mergeCount > 0) =>
        LET src == heap.prev[HeapLayers[mergeCount]]
            was == heap.prev[heap.target]
            now == heap.objs[heap.target]
        IN  \A k \in DOMAIN src.m :
               LET value == src.m[k]
               IN  IF IsArrayRef(heap.prev, value) THEN TRUE
                   ELSE IF value = Undef
                   THEN /\ (k \in DOMAIN now.m) = (k \in DOMAIN was.m)
                        /\ k \in DOMAIN was.m =>
                              Deref(heap.objs, now.m[k]) = Deref(heap.prev, was.m[k])
                   ELSE IF IsObjectRef(heap.prev, value)
                   THEN /\ k \in DOMAIN now.m
                        /\ Deref(heap.objs, now.m[k]) =
                              Obj(deepAssignOne(
                                     IF k \in DOMAIN was.m /\ IsObjectRef(heap.prev, was.m[k])
                                     THEN Deref(heap.prev, was.m[k]).o ELSE EmptyMap,
                                     Deref(heap.prev, value).o))
                   ELSE /\ k \in DOMAIN now.m
                        /\ now.m[k] = value

(* C27: while the request is built, every object that existed when ts2gas  *)
(* was entered (the caller's options with the mappings and arrays nested   *)
(* in them, the defaults and statics layers, and Object.prototype) keeps   *)
(* its properties; only objects made since are written.  A caller mapping  *)
(* that owns a key __proto__ with a mapping value has that value merged    *)
(* into Object.prototype.                                                  *)
C27_InputsUnchanged ==
    pc = "heap" =>
        \A at \in 1..Len(BuildHeap(options).objs) :
            heap.objs[at] = BuildHeap(options).objs[at]

(* C28: for every caller input the merged request's transformers are the   *)
(* statics' lists, before = [noSubstitution, ignoreExportFrom,             *)
(* ignoreImport] and after = [removeExportEsModule, removeExportsDefault,  *)
(* detectExportNodes, addDummyModuleNodes], so that detectExportNodes runs *)
(* before addDummyModuleNodes.  A transformers mapping the caller placed   *)
(* on Object.prototype, through compilerOptions.__proto__, is what the     *)
(* target reads under that key, and the statics' lists are appended to     *)
(* its lists.                                                              *)
C28_TransformerListsExact ==
    (pc = "heap" /\ mergeCount = Len(HeapLayers)) =>
        LET merged == Deref(heap.objs, Ref(heap.target)).o
        IN  /\ "transformers" \in DOMAIN merged
            /\ merged["transformers"] =
                  Obj([before |-> FnList(BeforeNames), after |-> FnList(AfterNames)])

RECURSIVE StripFlags(_)
StripFlags(node) ==
    [node EXCEPT !.flags = {},
                 !.children = [i \in DOMAIN node.children |-> StripFlags(node.children[i])]]

RECURSIVE OnlyIdentifiersFlagged(_)
OnlyIdentifiersFlagged(node) ==
    /\ node.flags \subseteq {"NoSubstitution"}
    /\ node.flags # {} => node.kind = "Identifier"
    /\ \A i \in DOMAIN node.children : OnlyIdentifiersFlagged(node.children[i])

CommentedOut(stmts) ==
    [i \in DOMAIN stmts |->
        ignoreVisitor("importNodeFilter", ignoreVisitor("exportFromNodeFilter", stmts[i]))]

(* C30: the tree after the before passes is, emit flags aside, the parsed  *)
(* source with its import and export-from statements commented out: the    *)
(* no-substitution pass adds only the NoSubstitution flag, and only to     *)
(* identifiers. After the after passes the statement list is the one the   *)
(* passes were given, behind the two guards when the flag is set:          *)
(* detectExportNodes and the passes built by ignoreNodeAfterBuilder return *)
(* the source file they are given.                                         *)
C30_OnlyCommentOutAndGuardsReshape ==
    /\ BeforeDone =>
          /\ [i \in DOMAIN tree.statements |-> StripFlags(tree.statements[i])]
                = CommentedOut(ParseSource(source).statements)
          /\ \A i \in DOMAIN tree.statements : OnlyIdentifiersFlagged(tree.statements[i])
          /\ tree.externalModuleIndicator = ParseSource(source).externalModuleIndicator
    /\ AfterDone =>
          /\ tree.statements = (IF addDummyModule THEN <<ExportsGuard, ModuleGuard>> ELSE <<>>)
                               \o scanned.statements
          /\ tree.helpers = scanned.helpers
          /\ \A t \in {"removeExportEsModule", "removeExportsDefault", "detectExportNodes"} :
                ApplyAfter(t, [sf |-> scanned, flag |-> FALSE]).sf = scanned

C30_Witness ==
    /\ pc = "after"
    /\ source = <<NamespaceStmt(<<ConstStmt, ImportEquals(<<" ">>), ConstStmt>>), UserEsModule>>
    /\ addDummyModule
    /\ Len(tree.statements) = 4
    /\ tree.statements[3].kind = "ModuleDeclaration"
    /\ tree.statements[3].children[2].children[2].kind = "NotEmittedStatement"
    /\ tree.statements[3].children[1].flags = {"NoSubstitution"}
    /\ tree.statements[4] = scanned.statements[2]

Ended == pc \in {"done", "error"}

=============================================================================
